---- MODULE Spec2Model ----
(***************************************************************************)
(* TrustLLM API: the job store kept by RustEvalService (configs/, jobs/    *)
(* and results/ documents keyed by job id), the calls that read it         *)
(* (getJobResults, the /results/:jobId/status route, listJobs) and the     *)
(* call that writes it (startEvaluation / createConfigFile), interleaved   *)
(* with the external evaluation engine that publishes Result documents.    *)
(***************************************************************************)
EXTENDS Integers, Sequences, FiniteSets, TLC

(* ---------------------------- bounds ----------------------------------- *)
MaxJobs == 2        \* job ids are 1..MaxJobs
MaxPrompts == 1     \* a request carries 0..MaxPrompts prompts
MaxModels == 1      \* a request carries 0..MaxModels models
MaxOutputs == 2     \* outputs recorded per model in a Result
MaxClock == 2       \* wall-clock readings are 1..MaxClock
MaxStatusJobs == 1  \* jobs submitted while the status reader is explored
MaxCompareIds == 2  \* a comparison request names 2..MaxCompareIds job ids
MaxAggModels == 2   \* models in a Result handed to a grouping or export
MaxAggPrompts == 2  \* prompts of a job handed to an export
MaxMetrics == 2     \* metric names in use
MaxPerf == 2        \* distinct Performance records
MaxLimit == 3       \* a leaderboard query asks for 1..MaxLimit entries
MaxTimeout == 3     \* waitForCompletion's timeout is 1..MaxTimeout time units
MaxPollInterval == 2 \* its poll interval is 1..MaxPollInterval time units
MaxLatency == 1     \* a request, or a timer's lateness, takes 0..MaxLatency
MaxWatchSteps == 4   \* a watched job's progress is reported in 0..MaxWatchSteps steps

JobIds == 1..MaxJobs

(* A document file is absent, created but still zero-length ("empty"),     *)
(* holding a non-empty prefix of its JSON text ("partial"), or complete.   *)
FileStates == {"absent", "empty", "partial", "full"}

Undefined == 0      \* a missing optional timestamp (real ones are >= 1)

VARIABLES
  configs,      \* configs/<id>.json : file state
  jobs,         \* jobs/<id>.json    : [file, doc]
  results,      \* results/<id>.json : [file, doc]
  invoked,      \* job ids the engine binary was started for
  usedIds,      \* ids uuidv4 has handed out
  clock,        \* last reading of the wall clock
  se,           \* the startEvaluation call in flight (resultAtReturn, out:
                \* history, the Result file's state when the call completed
                \* and what the engine process ended with)
  gr,           \* the getJobResults / status call in flight (resultAtCall:
                \* history, the Result file's state when the call began;
                \* reported: history, the jobs a caller that keeps track of
                \* what it was told has seen reported 'completed')
  lj,           \* the listJobs call in flight (fullAtReaddir, read: history,
                \* the complete metadata files at readdir, the last read)
  returnedIds,  \* history: ids returned by successful startEvaluation calls
  overwrote,    \* history: a document was opened for writing over an existing one
  cj,           \* the POST /compare request (compareJobs call) in flight
  lb,           \* the GET /compare/leaderboard request in flight
  ag,           \* a grouping or export function applied to loaded jobs, or
                \* compareJobs applied to the documents its loads read (docs)
  qy,           \* the getAvailableMetrics / getAvailableProviders call in flight
  wc,           \* the SDK waitForCompletion call in flight
  wj            \* the CLI watchJob call in flight (job: the status the
                \* server holds for the watched job)

\* the calls that read the store without writing it, besides gr and lj
otherCalls == <<cj, lb, ag, qy, wc, wj>>

vars == <<configs, jobs, results, invoked, usedIds, clock, se, gr, lj,
          returnedIds, overwrote, otherCalls>>

(* ------------------------- documents ----------------------------------- *)
Range(s) == {s[i] : i \in DOMAIN s}

SeqUpTo(n) == [i \in 1..n |-> i]

\* Result document: model_results in key order, each with its outputs
\* (an output is identified by its prompt id).
NoResult == [job_id |-> 0, completed_at |-> Undefined, model_results |-> <<>>]

NoJob == [id |-> 0, status |-> "none", created_at |-> Undefined,
          completed_at |-> Undefined, prompts |-> <<>>, models |-> <<>>,
          results |-> <<>>]

\* the EvaluationJob object createConfigFile serialises
NewJob(jobId, prompts, models, now) ==
  [id |-> jobId, status |-> "pending", created_at |-> now,
   completed_at |-> Undefined, prompts |-> prompts, models |-> models,
   results |-> <<>>]

\* what readFile(...).catch(() => null) yields for a file
ReadFile(f) ==
  CASE f.file = "absent"  -> [kind |-> "null", doc |-> f.doc]
    [] f.file = "empty"   -> [kind |-> "empty", doc |-> f.doc]
    [] f.file = "partial" -> [kind |-> "partial", doc |-> f.doc]
    [] OTHER              -> [kind |-> "full", doc |-> f.doc]

\* JS truthiness of the string-or-null a read yields: null and "" are falsy
Truthy(data) == data.kind \in {"partial", "full"}

\* JSON.parse succeeds only on the complete text
Parses(data) == data.kind = "full"

NoData == [kind |-> "null", doc |-> NoJob]
NoResData == [kind |-> "null", doc |-> NoResult]

(* ------------------------- JS numbers ---------------------------------- *)
Num(n) == [kind |-> "num", val |-> n]
NaN == [kind |-> "NaN", val |-> 0]
Infinity == [kind |-> "Infinity", val |-> 0]

\* Math.floor(a / b) for non-negative integers a, b
FloorDiv(a, b) ==
  IF b = 0 THEN (IF a = 0 THEN NaN ELSE Infinity) ELSE Num(a \div b)

\* Math.min(n, x) for a finite n
MathMin(n, x) ==
  CASE x.kind = "NaN" -> NaN
    [] x.kind = "Infinity" -> Num(n)
    [] OTHER -> Num(IF n < x.val THEN n ELSE x.val)

\* Math.round((a / b) * 100) for non-negative integers a, b
RoundPct(a, b) ==
  IF b = 0 THEN (IF a = 0 THEN NaN ELSE Infinity)
  ELSE Num((200 * a + b) \div (2 * b))

(* ------------------------- initial state ------------------------------- *)
SeIdle == [pc |-> "idle", jobId |-> 0, prompts |-> <<>>, models |-> <<>>,
           resp |-> [success |-> FALSE, code |-> "", job_id |-> 0],
           resultAtReturn |-> "absent",
           out |-> [rejected |-> FALSE, stderr |-> ""]]

NoJobResp == [success |-> FALSE, code |-> "", data |-> NoJob]
NoReply == [sent |-> FALSE, httpCode |-> 0, status |-> "none",
            completed_at |-> Undefined, hasProgress |-> FALSE,
            completed_prompts |-> Num(0),
            total_prompts |-> 0, completed_models |-> 0, total_models |-> 0,
            percentage |-> Num(0)]

GrIdle == [pc |-> "idle", jobId |-> 0, gotResults |-> FALSE, gotJob |-> FALSE,
           resultsData |-> NoResData, jobData |-> NoData,
           resp |-> NoJobResp, reply |-> NoReply,
           resultAtCall |-> "absent", reported |-> {}]

LjIdle == [pc |-> "idle", files |-> <<>>, read |-> "none", jobs |-> <<>>,
           resp |-> [success |-> FALSE, code |-> "", data |-> <<>>],
           fullAtReaddir |-> {}]

\* a comparison request's metric filter: omitted, or an array of names
NoFilter == [given |-> FALSE, names |-> {}]

NoComparison == [jobs_compared |-> <<>>, comparison_type |-> "none",
                 metrics_included |-> {}, data |-> <<>>]

CjIdle == [pc |-> "idle", job_ids |-> <<>>, group_by |-> "none",
           metrics |-> NoFilter, jobData |-> <<>>, resultsData |-> <<>>,
           resp |-> [success |-> FALSE, code |-> "", data |-> NoComparison],
           httpCode |-> 0]

LbIdle == [pc |-> "idle", metric |-> "", limit |-> 0, providers |-> NoFilter,
           success |-> FALSE, code |-> "", name |-> "", rankings |-> <<>>,
           sent |-> <<>>]
AgIdle == [pc |-> "idle", op |-> "none", jobs |-> <<>>, metrics |-> NoFilter,
           docs |-> <<>>, out |-> <<>>, thrown |-> FALSE]
QyIdle == [pc |-> "idle", op |-> "none",
           resp |-> [success |-> FALSE, code |-> "", data |-> {}]]
WcIdle == [pc |-> "idle", pollInterval |-> 0, timeout |-> 0, startTime |-> 0,
           now |-> 0, polls |-> 0, allRunning |-> TRUE, events |-> <<>>,
           outcome |-> "none"]
WjIdle == [pc |-> "idle", job |-> "pending", lastStatus |-> "",
           spinner |-> "none", percentage |-> 0, printed |-> FALSE]

Init ==
  /\ configs = [j \in JobIds |-> "absent"]
  /\ jobs = [j \in JobIds |-> [file |-> "absent", doc |-> NoJob]]
  /\ results = [j \in JobIds |-> [file |-> "absent", doc |-> NoResult]]
  /\ invoked = {}
  /\ usedIds = {}
  /\ clock = 1
  /\ se = SeIdle
  /\ gr = GrIdle
  /\ lj = LjIdle
  /\ returnedIds = <<>>
  /\ overwrote = FALSE
  /\ cj = CjIdle
  /\ lb = LbIdle
  /\ ag = AgIdle
  /\ qy = QyIdle
  /\ wc = WcIdle
  /\ wj = WjIdle

(* ------------------------- startEvaluation ----------------------------- *)
\* uuidv4(): an identifier no earlier call was given (ids are interchangeable,
\* so the fresh one is taken to be the least unused)
uuidv4_reuse(used) == JobIds
uuidv4(used) == {id \in JobIds \ used : \A other \in JobIds \ used : id <= other}

\* request.prompts / request.models as the caller passes them; the service
\* method itself validates nothing
RequestPrompts == {SeqUpTo(n) : n \in 0..MaxPrompts}
RequestModels == {SeqUpTo(n) : n \in 0..MaxModels}

\* const jobId = uuidv4(); createConfigFile(jobId, request) is entered, for a
\* request whose prompts and models are drawn from PS and MS
SeCallWith(PS, MS) ==
  /\ se.pc = "idle"
  /\ \E id \in uuidv4(usedIds), ps \in PS, ms \in MS :
       /\ se' = [se EXCEPT !.pc = "mkConfig", !.jobId = id,
                           !.prompts = ps, !.models = ms]
       /\ usedIds' = usedIds \cup {id}
  /\ UNCHANGED <<configs, jobs, results, invoked, clock, gr, lj,
                 returnedIds, overwrote, otherCalls>>

SeCall == SeCallWith(RequestPrompts, RequestModels)

\* the call for an ordinary request: one model, at most one prompt
SeCallPlain == SeCallWith({SeqUpTo(0), SeqUpTo(1)}, {SeqUpTo(1)})

\* SeCall, at most MaxStatusJobs times
SeCallBounded ==
  /\ Cardinality(usedIds) < MaxStatusJobs
  /\ SeCall

\* writeFile(configPath, ...): the file is opened with flag 'w'
\* (created or truncated), its text is written afterwards
SeOpenConfig ==
  /\ se.pc = "mkConfig"
  /\ overwrote' = (overwrote \/ configs[se.jobId] # "absent")
  /\ configs' = [configs EXCEPT ![se.jobId] = "empty"]
  /\ se' = [se EXCEPT !.pc = "wrConfig"]
  /\ UNCHANGED <<jobs, results, invoked, usedIds, clock, gr, lj, returnedIds, otherCalls>>

SeWriteConfigPart ==
  /\ se.pc = "wrConfig"
  /\ configs[se.jobId] = "empty"
  /\ configs' = [configs EXCEPT ![se.jobId] = "partial"]
  /\ UNCHANGED <<jobs, results, invoked, usedIds, clock, se, gr, lj,
                 returnedIds, overwrote, otherCalls>>

SeWriteConfig ==
  /\ se.pc = "wrConfig"
  /\ configs' = [configs EXCEPT ![se.jobId] = "full"]
  /\ se' = [se EXCEPT !.pc = "mkJob"]
  /\ UNCHANGED <<jobs, results, invoked, usedIds, clock, gr, lj,
                 returnedIds, overwrote, otherCalls>>

\* created_at: new Date().toISOString(), then writeFile(jobPath, ...) opens
SeOpenJob ==
  /\ se.pc = "mkJob"
  /\ \E now \in clock..MaxClock :
       /\ clock' = now
       /\ jobs' = [jobs EXCEPT ![se.jobId] =
                     [file |-> "empty",
                      doc |-> NewJob(se.jobId, se.prompts, se.models, now)]]
  /\ overwrote' = (overwrote \/ jobs[se.jobId].file # "absent")
  /\ se' = [se EXCEPT !.pc = "wrJob"]
  /\ UNCHANGED <<configs, results, invoked, usedIds, gr, lj, returnedIds, otherCalls>>

SeWriteJobPart ==
  /\ se.pc = "wrJob"
  /\ jobs[se.jobId].file = "empty"
  /\ jobs' = [jobs EXCEPT ![se.jobId].file = "partial"]
  /\ UNCHANGED <<configs, results, invoked, usedIds, clock, se, gr, lj,
                 returnedIds, overwrote, otherCalls>>

SeWriteJob ==
  /\ se.pc = "wrJob"
  /\ jobs' = [jobs EXCEPT ![se.jobId].file = "full"]
  /\ se' = [se EXCEPT !.pc = "exec"]
  /\ UNCHANGED <<configs, results, invoked, usedIds, clock, gr, lj,
                 returnedIds, overwrote, otherCalls>>

\* the engine started while the metadata document is still being written,
\* as when writeFile(jobPath, ...) is not awaited
SeExec_beforeMetadata ==
  /\ se.pc = "wrJob"
  /\ invoked' = invoked \cup {se.jobId}
  /\ se' = [se EXCEPT !.pc = "awaitExec"]
  /\ UNCHANGED <<configs, jobs, results, usedIds, clock, gr, lj,
                 returnedIds, overwrote, otherCalls>>

\* execFileAsync(evalBinaryPath, ['run', '--config', ...]) starts the engine
SeExec ==
  /\ se.pc = "exec"
  /\ invoked' = invoked \cup {se.jobId}
  /\ se' = [se EXCEPT !.pc = "awaitExec"]
  /\ UNCHANGED <<configs, jobs, results, usedIds, clock, gr, lj,
                 returnedIds, overwrote, otherCalls>>

\* what the engine process ends with: the promise rejects (spawn error or
\* non-zero exit) or resolves with some stderr text
Stderrs == {"", "warning: rate limited", "error: provider failed"}
IncludesError(stderr) == stderr = "error: provider failed"
ExecOutcomes == [rejected : BOOLEAN, stderr : Stderrs]

StartResponse(jobId, out) ==
  IF out.rejected \/ (out.stderr # "" /\ IncludesError(out.stderr))
  THEN [success |-> FALSE, code |-> "EVAL_START_FAILED", job_id |-> 0]
  ELSE [success |-> TRUE, code |-> "", job_id |-> jobId]

SeExecDone ==
  /\ se.pc = "awaitExec"
  /\ \E out \in ExecOutcomes :
       se' = [se EXCEPT !.pc = "done", !.resp = StartResponse(se.jobId, out),
                        !.resultAtReturn = results[se.jobId].file,
                        !.out = out]
  /\ UNCHANGED <<configs, jobs, results, invoked, usedIds, clock, gr, lj,
                 returnedIds, overwrote, otherCalls>>

\* the caller receives the response
SeReturn ==
  /\ se.pc = "done"
  /\ returnedIds' = IF se.resp.success THEN Append(returnedIds, se.resp.job_id)
                    ELSE returnedIds
  /\ se' = SeIdle
  /\ UNCHANGED <<configs, jobs, results, invoked, usedIds, clock, gr, lj,
                 overwrote, otherCalls>>

(* ------------------------- evaluation engine --------------------------- *)
\* outputs of one model: one per evaluated prompt attempt, prompts in turn
OutputLists == {[i \in 1..n |-> ((i - 1) % MaxPrompts) + 1] : n \in 0..MaxOutputs}

ModelResultsOf(k) ==
  {mr \in [1..k -> [model_id : 1..k, outputs : OutputLists]] :
     \A i \in 1..k : mr[i].model_id = i}

\* the engine stamps the Result with its completion time
ResultDocs(j, now) ==
  {[job_id |-> j, completed_at |-> ca, model_results |-> mr] :
     ca \in {now},
     mr \in UNION {ModelResultsOf(k) : k \in 0..MaxModels}}

\* a Result with no model yet evaluated
BareResultDocs(j, now) ==
  {[job_id |-> j, completed_at |-> now, model_results |-> <<>>]}

\* the Results the engine may write: bare ones only, or any
DocsFor(bare, j, now) ==
  IF bare THEN BareResultDocs(j, now) ELSE ResultDocs(j, now)

\* atomic publish (write-temp-then-rename)
EnginePublishFrom(bare) ==
  /\ \E j \in invoked :
       /\ results[j].file = "absent"
       /\ \E r \in DocsFor(bare, j, clock) :
            results' = [results EXCEPT ![j] = [file |-> "full", doc |-> r]]
  /\ UNCHANGED <<configs, jobs, invoked, usedIds, clock, se, gr, lj,
                 returnedIds, overwrote, otherCalls>>

EnginePublish == EnginePublishFrom(FALSE)

EnginePublishBare == EnginePublishFrom(TRUE)

\* in-place write: the file appears empty, may hold a prefix, then is complete
EngineOpen ==
  /\ \E j \in invoked :
       /\ results[j].file = "absent"
       /\ results' = [results EXCEPT ![j].file = "empty"]
  /\ UNCHANGED <<configs, jobs, invoked, usedIds, clock, se, gr, lj,
                 returnedIds, overwrote, otherCalls>>

EngineWritePart ==
  /\ \E j \in invoked :
       /\ results[j].file = "empty"
       /\ results' = [results EXCEPT ![j].file = "partial"]
  /\ UNCHANGED <<configs, jobs, invoked, usedIds, clock, se, gr, lj,
                 returnedIds, overwrote, otherCalls>>

EngineCompleteFrom(bare) ==
  /\ \E j \in invoked :
       /\ results[j].file \in {"empty", "partial"}
       /\ \E r \in DocsFor(bare, j, clock) :
            results' = [results EXCEPT ![j] = [file |-> "full", doc |-> r]]
  /\ UNCHANGED <<configs, jobs, invoked, usedIds, clock, se, gr, lj,
                 returnedIds, overwrote, otherCalls>>

EngineComplete == EngineCompleteFrom(FALSE)

EngineCompleteBare == EngineCompleteFrom(TRUE)

(* ------------------------- getJobResults ------------------------------- *)
\* getJobStatus: access(resultsPath) resolves as soon as the file exists
getJobStatus(resultsFile) ==
  IF resultsFile.file # "absent" THEN "completed" ELSE "running"

\* job.results = results; job.status = 'completed'; job.completed_at = ...
MergeResult(job, r) ==
  [job EXCEPT !.results = <<r>>, !.status = "completed",
              !.completed_at = r.completed_at]

JobFailure(code) == [success |-> FALSE, code |-> code, data |-> NoJob]
JobSuccess(job) == [success |-> TRUE, code |-> "", data |-> job]

\* completedEvaluations += modelResult.outputs.length, over model_results
RECURSIVE SumOutputs(_)
SumOutputs(mrs) ==
  IF mrs = <<>> THEN 0
  ELSE Len(Head(mrs).outputs) + SumOutputs(Tail(mrs))

\* the handler of GET /results/:jobId/status, applied to getJobResults' outcome
StatusReply(resp) ==
  IF resp.success
  THEN LET job == resp.data
           totalPrompts == Len(job.prompts)
           totalModels == Len(job.models)
           totalEvaluations == totalPrompts * totalModels
           modelResults == IF job.results = <<>> THEN <<>>
                           ELSE job.results[1].model_results
           completedEvaluations == SumOutputs(modelResults)
           hasProgress == job.status \in {"running", "completed"}
       IN [sent |-> TRUE, httpCode |-> 200, status |-> job.status,
           completed_at |-> job.completed_at,
           hasProgress |-> hasProgress,
           completed_prompts |->
             MathMin(totalPrompts, FloorDiv(completedEvaluations, totalModels)),
           total_prompts |-> totalPrompts,
           completed_models |-> Len(modelResults),
           total_models |-> totalModels,
           percentage |-> RoundPct(completedEvaluations, totalEvaluations)]
  ELSE [NoReply EXCEPT !.sent = TRUE,
          !.httpCode = IF resp.code = "JOB_NOT_FOUND" THEN 404 ELSE 500]

GrCall ==
  /\ gr.pc = "idle"
  /\ \E j \in JobIds :
       gr' = [GrIdle EXCEPT !.pc = "reading", !.jobId = j,
                            !.resultAtCall = results[j].file,
                            !.reported = gr.reported]
  /\ UNCHANGED <<configs, jobs, results, invoked, usedIds, clock, se, lj,
                 returnedIds, overwrote, otherCalls>>

\* Promise.all([readFile(resultsPath)..., readFile(jobPath)...]): the two
\* reads complete in either order
\* a read that takes the Result document away
GrReadResults_consuming ==
  /\ gr.pc = "reading" /\ ~gr.gotResults
  /\ gr' = [gr EXCEPT !.gotResults = TRUE,
                      !.resultsData = ReadFile(results[gr.jobId])]
  /\ results' = [results EXCEPT ![gr.jobId] =
                                  [file |-> "absent", doc |-> NoResult]]
  /\ UNCHANGED <<configs, jobs, invoked, usedIds, clock, se, lj,
                 returnedIds, overwrote, otherCalls>>

GrReadResults ==
  /\ gr.pc = "reading" /\ ~gr.gotResults
  /\ gr' = [gr EXCEPT !.gotResults = TRUE,
                      !.resultsData = ReadFile(results[gr.jobId])]
  /\ UNCHANGED <<configs, jobs, results, invoked, usedIds, clock, se, lj,
                 returnedIds, overwrote, otherCalls>>

GrReadJob ==
  /\ gr.pc = "reading" /\ ~gr.gotJob
  /\ gr' = [gr EXCEPT !.gotJob = TRUE, !.jobData = ReadFile(jobs[gr.jobId])]
  /\ UNCHANGED <<configs, jobs, results, invoked, usedIds, clock, se, lj,
                 returnedIds, overwrote, otherCalls>>

\* lines 78-96 up to the await of getJobStatus; "" is the outcome still open
ResolveJob(jobData, resultsData) ==
  CASE ~Truthy(jobData) -> JobFailure("JOB_NOT_FOUND")
    [] Truthy(jobData) /\ ~Parses(jobData) -> JobFailure("READ_ERROR")
    [] Parses(jobData) /\ Truthy(resultsData) /\ ~Parses(resultsData) ->
         JobFailure("READ_ERROR")
    [] Parses(jobData) /\ Parses(resultsData) ->
         JobSuccess(MergeResult(jobData.doc, resultsData.doc))
    [] OTHER -> JobSuccess(jobData.doc)

NeedsStatus(jobData, resultsData) == Parses(jobData) /\ ~Truthy(resultsData)

GrResolve ==
  /\ gr.pc = "reading" /\ gr.gotResults /\ gr.gotJob
  /\ LET resp == ResolveJob(gr.jobData, gr.resultsData) IN
       IF NeedsStatus(gr.jobData, gr.resultsData)
       THEN gr' = [gr EXCEPT !.pc = "access", !.resp = resp]
       ELSE gr' = [gr EXCEPT !.pc = "done", !.resp = resp,
                             !.reply = StatusReply(resp)]
  /\ UNCHANGED <<configs, jobs, results, invoked, usedIds, clock, se, lj,
                 returnedIds, overwrote, otherCalls>>

\* job.status = await this.getJobStatus(jobId); return { success, data: job }
GrAccess ==
  /\ gr.pc = "access"
  /\ LET resp == [gr.resp EXCEPT
                    !.data.status = getJobStatus(results[gr.jobId])] IN
       gr' = [gr EXCEPT !.pc = "done", !.resp = resp,
                        !.reply = StatusReply(resp)]
  /\ UNCHANGED <<configs, jobs, results, invoked, usedIds, clock, se, lj,
                 returnedIds, overwrote, otherCalls>>

\* the caller receives the response; a caller that keeps track notes the job
\* as one it has seen reported 'completed'
GrReturnTo(tracking) ==
  /\ gr.pc = "done"
  /\ gr' = IF tracking /\ gr.resp.success /\ gr.resp.data.status = "completed"
           THEN [GrIdle EXCEPT !.reported = gr.reported \cup {gr.jobId}]
           ELSE [GrIdle EXCEPT !.reported = gr.reported]
  /\ UNCHANGED <<configs, jobs, results, invoked, usedIds, clock, se, lj,
                 returnedIds, overwrote, otherCalls>>

GrReturn == GrReturnTo(FALSE)

GrReturnTracked == GrReturnTo(TRUE)

(* ------------------------- listJobs ------------------------------------ *)
\* readdir returns the directory's entries in no particular order
Perms(S) == {f \in [1..Cardinality(S) -> S] : Range(f) = S}

\* jobs.sort((a, b) => Date(b.created_at) - Date(a.created_at)), stable
RECURSIVE InsertDesc(_, _)
InsertDesc(x, s) ==
  IF s = <<>> THEN <<x>>
  ELSE IF Head(s).created_at >= x.created_at
       THEN <<Head(s)>> \o InsertDesc(x, Tail(s))
       ELSE <<x>> \o s

RECURSIVE SortByCreatedDesc(_)
SortByCreatedDesc(s) ==
  IF s = <<>> THEN <<>>
  ELSE InsertDesc(s[Len(s)], SortByCreatedDesc(SubSeq(s, 1, Len(s) - 1)))

LjCall ==
  /\ lj.pc = "idle"
  /\ lj' = [LjIdle EXCEPT !.pc = "exec"]
  /\ UNCHANGED <<configs, jobs, results, invoked, usedIds, clock, se, gr,
                 returnedIds, overwrote, otherCalls>>

\* execFileAsync(evalBinaryPath, ['list-jobs']) resolves or rejects
LjExec ==
  /\ lj.pc = "exec"
  /\ \E rejected \in BOOLEAN :
       lj' = IF rejected
             THEN [lj EXCEPT !.pc = "done",
                     !.resp = [success |-> FALSE, code |-> "LIST_JOBS_FAILED",
                               data |-> <<>>]]
             ELSE [lj EXCEPT !.pc = "readdir"]
  /\ UNCHANGED <<configs, jobs, results, invoked, usedIds, clock, se, gr,
                 returnedIds, overwrote, otherCalls>>

LjReaddir ==
  /\ lj.pc = "readdir"
  /\ \E files \in Perms({j \in JobIds : jobs[j].file # "absent"}) :
       lj' = [lj EXCEPT !.pc = "loop", !.files = files,
                !.fullAtReaddir = {j \in JobIds : jobs[j].file = "full"}]
  /\ UNCHANGED <<configs, jobs, results, invoked, usedIds, clock, se, gr,
                 returnedIds, overwrote, otherCalls>>

\* one iteration: readFile + JSON.parse + push; a throw leaves the loop
\* through the empty catch
LjReadFile ==
  /\ lj.pc = "loop" /\ lj.files # <<>>
  /\ LET data == ReadFile(jobs[Head(lj.files)]) IN
       IF Parses(data)
       THEN lj' = [lj EXCEPT !.files = Tail(lj.files), !.read = data.kind,
                             !.jobs = Append(lj.jobs, data.doc)]
       ELSE lj' = [lj EXCEPT !.pc = "ret", !.read = data.kind]
  /\ UNCHANGED <<configs, jobs, results, invoked, usedIds, clock, se, gr,
                 returnedIds, overwrote, otherCalls>>

LjReturn ==
  /\ lj.pc = "ret" \/ (lj.pc = "loop" /\ lj.files = <<>>)
  /\ lj' = [lj EXCEPT !.pc = "done",
              !.resp = [success |-> TRUE, code |-> "",
                        data |-> SortByCreatedDesc(lj.jobs)]]
  /\ UNCHANGED <<configs, jobs, results, invoked, usedIds, clock, se, gr,
                 returnedIds, overwrote, otherCalls>>

LjDone ==
  /\ lj.pc = "done"
  /\ lj' = LjIdle
  /\ UNCHANGED <<configs, jobs, results, invoked, usedIds, clock, se, gr,
                 returnedIds, overwrote, otherCalls>>

(* ------------------------- specifications ------------------------------ *)
StartEvaluation ==
  \/ SeCall \/ SeOpenConfig \/ SeWriteConfigPart \/ SeWriteConfig
  \/ SeOpenJob \/ SeWriteJobPart \/ SeWriteJob \/ SeExec \/ SeExecDone
  \/ SeReturn

Engine == EnginePublish \/ EngineOpen \/ EngineWritePart \/ EngineComplete

GetJobResults ==
  GrCall \/ GrReadResults \/ GrReadJob \/ GrResolve \/ GrAccess \/ GrReturn

ListJobs == LjCall \/ LjExec \/ LjReaddir \/ LjReadFile \/ LjReturn \/ LjDone

StartEvaluationBounded ==
  \/ SeCallBounded \/ SeOpenConfig \/ SeWriteConfigPart \/ SeWriteConfig
  \/ SeOpenJob \/ SeWriteJobPart \/ SeWriteJob \/ SeExec \/ SeExecDone
  \/ SeReturn

\* job creation, the engine and the getJobResults / status reader
Next == StartEvaluationBounded \/ Engine \/ GetJobResults

Spec == Init /\ [][Next]_vars

\* the same, for a caller that polls a job's status again and again and
\* remembers what it was told
NextStatus ==
  \/ StartEvaluationBounded \/ Engine
  \/ GrCall \/ GrReadResults \/ GrReadJob \/ GrResolve \/ GrAccess
  \/ GrReturnTracked

SpecStatus == Init /\ [][NextStatus]_vars

\* job creation and the listJobs reader (listJobs never reads results/, and
\* the engine never writes jobs/, so the engine is left out)
NextList == StartEvaluation \/ ListJobs

SpecList == Init /\ [][NextList]_vars

StartEvaluationPlain ==
  \/ SeCallPlain \/ SeOpenConfig \/ SeWriteConfigPart \/ SeWriteConfig
  \/ SeOpenJob \/ SeWriteJobPart \/ SeWriteJob \/ SeExec \/ SeExecDone
  \/ SeReturn

EngineBare ==
  EnginePublishBare \/ EngineOpen \/ EngineWritePart \/ EngineCompleteBare

\* job creation and the engine alone (the readers write nothing); what the
\* documents hold beyond id and status plays no part, so requests are
\* ordinary and Results bare
NextCreate == StartEvaluationPlain \/ EngineBare

SpecCreate == Init /\ [][NextCreate]_vars

(* ------------------------- ComparisonService --------------------------- *)
\* the part of the state compareJobs leaves alone
storeAndCalls == <<configs, jobs, results, invoked, usedIds, clock, se, gr, lj,
                   returnedIds, overwrote>>

\* a loader that yields a job only once its Result is there
Loads_resultRequired(jobData, resultsData) ==
  Parses(jobData) /\ Parses(resultsData)

\* loadJobWithResults, given what the two reads yielded: null (FALSE in loaded)
\* when the metadata read rejects or either text does not parse
Loads(jobData, resultsData) ==
  /\ Parses(jobData)
  /\ Truthy(resultsData) => Parses(resultsData)

loadJobWithResults(jobData, resultsData) ==
  IF Truthy(resultsData)
  THEN [jobData.doc EXCEPT !.results = <<resultsData.doc>>,
                           !.status = "completed"]
  ELSE jobData.doc

\* the jobs that loaded among positions 1..n, position n first
RECURSIVE LoadedDownFrom(_, _, _)
LoadedDownFrom(jobData, resultsData, n) ==
  IF n = 0 THEN <<>>
  ELSE (IF Loads(jobData[n], resultsData[n])
        THEN <<loadJobWithResults(jobData[n], resultsData[n])>>
        ELSE <<>>) \o LoadedDownFrom(jobData, resultsData, n - 1)

\* the jobs that loaded, listed in the order their loads settled when the
\* load for the last id settles first and the one for the first id last
ValidJobs_lastFirst(jobData, resultsData) ==
  LoadedDownFrom(jobData, resultsData, Len(jobData))

\* jobs.filter(job => job !== null), in the order of the request's ids
RECURSIVE ValidJobs(_, _)
ValidJobs(jobData, resultsData) ==
  IF jobData = <<>> THEN <<>>
  ELSE LET rest == ValidJobs(Tail(jobData), Tail(resultsData))
       IN IF Loads(Head(jobData), Head(resultsData))
          THEN <<loadJobWithResults(Head(jobData), Head(resultsData))>> \o rest
          ELSE rest

\* the (job, model result) pairs in iteration order: jobs in list order, a
\* job without results skipped, then Object.entries(model_results)
RECURSIVE ModelPairs(_)
ModelPairs(js) ==
  IF js = <<>> THEN <<>>
  ELSE LET job == Head(js)
           mrs == IF job.results = <<>> THEN <<>>
                  ELSE job.results[1].model_results
       IN [i \in 1..Len(mrs) |-> [job |-> job, mr |-> mrs[i]]]
          \o ModelPairs(Tail(js))

RECURSIVE SumOf(_)
SumOf(ns) == IF ns = <<>> THEN 0 ELSE Head(ns) + SumOf(Tail(ns))

\* a / b for b > 0, kept exact (amounts are whole numbers of ms, tokens,
\* cost units and per-cent)
Quot(a, b) == [num |-> a, den |-> b]

ZeroSummary == [avg_latency |-> Quot(0, 1), avg_cost |-> Quot(0, 1),
                avg_success_rate |-> Quot(0, 1), total_evaluations |-> 0]

\* the sums kept by assignment instead of accumulation: the last entry alone
calculateAggregatedMetrics_lastOnly(model) ==
  LET last == model.jobs[Len(model.jobs)].performance
      n == Len(model.jobs)
  IN [model EXCEPT !.performance_summary =
        [avg_latency |-> Quot(last.average_latency_ms, n),
         avg_cost |-> Quot(last.total_cost_usd, n),
         avg_success_rate |-> Quot(last.success_rate, n),
         total_evaluations |-> last.total_tokens]]

calculateAggregatedMetrics(model) ==
  IF Len(model.jobs) = 0 THEN model
  ELSE LET perf == [i \in 1..Len(model.jobs) |-> model.jobs[i].performance]
           n == Len(model.jobs)
       IN [model EXCEPT !.performance_summary =
             [avg_latency |->
                Quot(SumOf([i \in DOMAIN perf |-> perf[i].average_latency_ms]),
                     n),
              avg_cost |->
                Quot(SumOf([i \in DOMAIN perf |-> perf[i].total_cost_usd]), n),
              avg_success_rate |->
                Quot(SumOf([i \in DOMAIN perf |-> perf[i].success_rate]), n),
              total_evaluations |->
                SumOf([i \in DOMAIN perf |-> perf[i].total_tokens])]]

\* modelComparison after the first loop: groups in first-encounter order
RECURSIVE GroupByModel(_, _)
GroupByModel(pairs, groups) ==
  IF pairs = <<>> THEN groups
  ELSE LET p == Head(pairs)
           entry == [job_id |-> p.job.id, metrics |-> p.mr.metrics,
                     performance |-> p.mr.performance]
           at == {i \in DOMAIN groups : groups[i].model_id = p.mr.model_id}
       IN GroupByModel(Tail(pairs),
            IF at = {}
            THEN Append(groups, [model_id |-> p.mr.model_id,
                                 jobs |-> <<entry>>,
                                 performance_summary |-> ZeroSummary])
            ELSE [groups EXCEPT ![CHOOSE i \in at : TRUE].jobs =
                                   Append(@, entry)])

compareByModel(js) ==
  LET groups == GroupByModel(ModelPairs(js), <<>>)
  IN [i \in DOMAIN groups |-> calculateAggregatedMetrics(groups[i])]

\* if (metrics && !metrics.includes(metricName)) continue;
\* an array, even an empty one, is truthy
PassesFilter(metrics, metricName) ==
  ~(metrics.given /\ metricName \notin metrics.names)

\* the (job, model, metric result) triples compareByMetric visits and keeps
RECURSIVE MetricTriples(_, _)
MetricTriples(pairs, metrics) ==
  IF pairs = <<>> THEN <<>>
  ELSE LET p == Head(pairs)
           ms == p.mr.metrics
           kept == SelectSeq(ms, LAMBDA m : PassesFilter(metrics, m.name))
       IN [i \in 1..Len(kept) |->
             [job_id |-> p.job.id, model_id |-> p.mr.model_id,
              name |-> kept[i].name, score |-> kept[i].score]]
          \o MetricTriples(Tail(pairs), metrics)

RECURSIVE GroupByMetric(_, _)
GroupByMetric(triples, groups) ==
  IF triples = <<>> THEN groups
  ELSE LET t == Head(triples)
           entry == [job_id |-> t.job_id, model_id |-> t.model_id,
                     score |-> t.score]
           at == {i \in DOMAIN groups : groups[i].metric_name = t.name}
       IN GroupByMetric(Tail(triples),
            IF at = {}
            THEN Append(groups, [metric_name |-> t.name,
                                 model_scores |-> <<entry>>])
            ELSE [groups EXCEPT ![CHOOSE i \in at : TRUE].model_scores =
                                   Append(@, entry)])

compareByMetric(js, metrics) ==
  GroupByMetric(MetricTriples(ModelPairs(js), metrics), <<>>)

\* modelResult.outputs.find(o => o.prompt_id === promptId): the first match,
\* <<>> for undefined
FindOutput(outputs, promptId) ==
  LET at == {i \in DOMAIN outputs : outputs[i].prompt_id = promptId}
  IN IF at = {} THEN <<>>
     ELSE <<outputs[CHOOSE i \in at : \A k \in at : i <= k]>>

\* every metric kept, a prompt its per-prompt map lacks scored 0
extractPromptMetrics_zeroFilled(ms, promptId) ==
  [i \in 1..Len(ms) |->
     [name |-> ms[i].name,
      score |-> IF promptId \in DOMAIN ms[i].per_prompt_scores
                THEN ms[i].per_prompt_scores[promptId] ELSE 0]]

\* extractPromptMetrics: the metrics whose per-prompt map scores the prompt
extractPromptMetrics(ms, promptId) ==
  LET kept == SelectSeq(ms, LAMBDA m : promptId \in DOMAIN m.per_prompt_scores)
  IN [i \in 1..Len(kept) |->
        [name |-> kept[i].name, score |-> kept[i].per_prompt_scores[promptId]]]

\* the model_performances one job adds for one of its prompts
PromptPerformances(job, promptId) ==
  LET mrs == IF job.results = <<>> THEN <<>> ELSE job.results[1].model_results
      found == SelectSeq(mrs,
                 LAMBDA mr : FindOutput(mr.outputs, promptId) # <<>>)
  IN [i \in 1..Len(found) |->
        [job_id |-> job.id, model_id |-> found[i].model_id,
         output |-> FindOutput(found[i].outputs, promptId)[1],
         metrics |-> extractPromptMetrics(found[i].metrics, promptId)]]

\* the (job, prompt) pairs in iteration order
RECURSIVE PromptPairs(_)
PromptPairs(js) ==
  IF js = <<>> THEN <<>>
  ELSE [i \in 1..Len(Head(js).prompts) |->
          [job |-> Head(js), prompt_id |-> Head(js).prompts[i]]]
       \o PromptPairs(Tail(js))

RECURSIVE GroupByPrompt(_, _)
GroupByPrompt(pairs, groups) ==
  IF pairs = <<>> THEN groups
  ELSE LET p == Head(pairs)
           added == PromptPerformances(p.job, p.prompt_id)
           at == {i \in DOMAIN groups : groups[i].prompt_id = p.prompt_id}
       IN GroupByPrompt(Tail(pairs),
            IF at = {}
            THEN Append(groups, [prompt_id |-> p.prompt_id,
                                 model_performances |-> added])
            ELSE [groups EXCEPT ![CHOOSE i \in at : TRUE].model_performances =
                                   @ \o added])

compareByPrompt(js) == GroupByPrompt(PromptPairs(js), <<>>)

GroupBys == {"model", "prompt", "metric"}

generateComparison(js, job_ids, group_by, metrics) ==
  [jobs_compared |-> [i \in DOMAIN js |-> js[i].id],
   comparison_type |-> group_by,
   metrics_included |-> IF metrics.given THEN metrics.names ELSE {"all"},
   data |-> CASE group_by = "model"  -> compareByModel(js)
              [] group_by = "prompt" -> compareByPrompt(js)
              [] OTHER               -> compareByMetric(js, metrics)]

\* if (validJobs.length < 2): the number of jobs a comparison needs
MinValidJobs == 2

\* the outcome of compareJobs once every load has settled
CompareResponse(c) ==
  LET validJobs == ValidJobs(c.jobData, c.resultsData)
  IN IF Len(validJobs) < MinValidJobs
     THEN [success |-> FALSE, code |-> "INSUFFICIENT_JOBS",
           data |-> NoComparison]
     ELSE [success |-> TRUE, code |-> "",
           data |-> generateComparison(validJobs, c.job_ids, c.group_by,
                                       c.metrics)]

\* the body schema of POST /compare: job_ids has 2 to 10 items
ValidCompareBody(job_ids) == Len(job_ids) >= 2 /\ Len(job_ids) <= 10

CompareIdLists ==
  UNION {[1..n -> JobIds] : n \in 1..MaxCompareIds}

\* the metric names the service lists, the first MaxMetrics of them in use
AllMetricNames == <<"bleu", "rouge", "exact_match", "embedding_similarity",
                    "latency", "cost", "toxicity", "hallucination">>

MetricNames == {AllMetricNames[i] : i \in 1..MaxMetrics}

MetricFilters ==
  {NoFilter} \cup {[given |-> TRUE, names |-> ns] : ns \in SUBSET MetricNames}

Unread == [kind |-> "unread", doc |-> NoJob]
UnreadRes == [kind |-> "unread", doc |-> NoResult]

\* POST /compare arrives; a body the schema rejects is answered 400 at once,
\* otherwise compareJobs starts one loadJobWithResults per id
CjCallWith(idLists, groupBys, filters) ==
  /\ cj.pc = "idle"
  /\ \E ids \in idLists, g \in groupBys, f \in filters :
       cj' = IF ValidCompareBody(ids)
             THEN [cj EXCEPT !.pc = "load", !.job_ids = ids, !.group_by = g,
                             !.metrics = f,
                             !.jobData = [i \in DOMAIN ids |-> Unread],
                             !.resultsData = [i \in DOMAIN ids |-> UnreadRes]]
             ELSE [cj EXCEPT !.pc = "done", !.job_ids = ids, !.group_by = g,
                             !.metrics = f,
                             !.resp = [success |-> FALSE,
                                       code |-> "FST_ERR_VALIDATION",
                                       data |-> NoComparison],
                             !.httpCode = 400]
  /\ UNCHANGED <<storeAndCalls, wj, lb, ag, qy, wc>>

CjCall == CjCallWith(CompareIdLists, GroupBys, MetricFilters)

\* requests that leave the metric filter out
CjCallUnfiltered == CjCallWith(CompareIdLists, GroupBys, {NoFilter})

\* readFile(jobPath, 'utf-8') of one load settles
CjReadJob ==
  /\ cj.pc = "load"
  /\ \E i \in DOMAIN cj.job_ids :
       /\ cj.jobData[i].kind = "unread"
       /\ cj' = [cj EXCEPT !.jobData[i] = ReadFile(jobs[cj.job_ids[i]])]
  /\ UNCHANGED <<storeAndCalls, wj, lb, ag, qy, wc>>

\* readFile(resultsPath, 'utf-8').catch(() => null) of one load settles
CjReadResults ==
  /\ cj.pc = "load"
  /\ \E i \in DOMAIN cj.job_ids :
       /\ cj.resultsData[i].kind = "unread"
       /\ cj' = [cj EXCEPT !.resultsData[i] = ReadFile(results[cj.job_ids[i]])]
  /\ UNCHANGED <<storeAndCalls, wj, lb, ag, qy, wc>>

\* Promise.all has settled: filter, count, compare; the route picks the code
CjSettle ==
  /\ cj.pc = "load"
  /\ \A i \in DOMAIN cj.job_ids :
       cj.jobData[i].kind # "unread" /\ cj.resultsData[i].kind # "unread"
  /\ LET r == CompareResponse(cj)
     IN cj' = [cj EXCEPT !.pc = "done", !.resp = r,
                         !.httpCode = IF r.success THEN 200 ELSE 400]
  /\ UNCHANGED <<storeAndCalls, wj, lb, ag, qy, wc>>

\* reply.send
CjReturn ==
  /\ cj.pc = "done"
  /\ cj' = CjIdle
  /\ UNCHANGED <<storeAndCalls, wj, lb, ag, qy, wc>>

CompareJobs == CjCallUnfiltered \/ CjReadJob \/ CjReadResults \/ CjSettle
               \/ CjReturn

\* job creation, the engine and comparison requests; a comparison meets the
\* store in any state the writers can leave it in, complete or half-written
\* documents alike, and its loads settle in any order, the writers pausing
\* while they do
StoreStep == cj.pc = "idle" /\ (StartEvaluationPlain \/ EngineBare)

NextCompare == StoreStep \/ CompareJobs

SpecCompare == Init /\ [][NextCompare]_vars

\* comparison requests grouped by model
CjCallByModel == CjCallWith(CompareIdLists, {"model"}, {NoFilter})

\* the call for a request with one prompt and one model
SeCallOne == SeCallWith({SeqUpTo(1)}, {SeqUpTo(1)})

\* the store is filled with the jobs a comparison needs, one after the other,
\* the engine writing between two startEvaluation calls; a comparison meets
\* it at any point of that
StoreFill ==
  /\ cj.pc = "idle"
  /\ \/ Cardinality(usedIds) < MinValidJobs /\ SeCallOne
     \/ SeOpenConfig \/ SeWriteConfigPart \/ SeWriteConfig \/ SeOpenJob
     \/ SeWriteJobPart \/ SeWriteJob \/ SeExec \/ SeExecDone \/ SeReturn
     \/ se.pc = "idle" /\ EngineBare

NextLoads ==
  StoreFill \/ CjCallByModel \/ CjReadJob \/ CjReadResults \/ CjSettle
  \/ CjReturn

\* compareJobs over a store that holds still while the loads settle, in
\* every order
SpecLoads == Init /\ [][NextLoads]_vars

(* ------------------- grouping applied to loaded jobs -------------------- *)
\* Performance records: latency 100, 200, ... ms; success rate 80, 60, ... %
Perfs ==
  {[average_latency_ms |-> 100 * k, total_cost_usd |-> k,
    success_rate |-> 100 - 20 * k, total_tokens |-> 10 * k] : k \in 1..MaxPerf}

AggModelIds == 1..MaxAggModels
AggPrompts == 1..MaxAggPrompts

\* a sequence listing the members of a set of numbers in increasing order
RECURSIVE Ascending(_)
Ascending(S) ==
  IF S = {} THEN <<>>
  ELSE LET least == CHOOSE x \in S : \A y \in S : x <= y
       IN <<least>> \o Ascending(S \ {least})

\* the score a metric gives: told apart by job, model, metric and prompt
ScoreOf(j, m, k, p) == 1000 * j + 100 * m + 10 * k + p

\* the metric results of one model: the metrics numbered in ks, each with a
\* per-prompt map over ps
MetricResults(j, m, ks, ps) ==
  LET kseq == Ascending(ks)
  IN [i \in 1..Len(kseq) |->
        [name |-> AllMetricNames[kseq[i]],
         score |-> ScoreOf(j, m, kseq[i], 0),
         per_prompt_scores |-> [p \in ps |-> ScoreOf(j, m, kseq[i], p)]]]

\* the outputs of one model: one per prompt in os
OutputsFor(m, os) ==
  LET oseq == Ascending(os)
  IN [i \in 1..Len(oseq) |->
        [prompt_id |-> oseq[i], latency_ms |-> 10 * m + oseq[i],
         cost_usd |-> m + oseq[i]]]

\* a job as loadJobWithResults / getJobResults yields it once its Result is
\* merged: model results for the models in ms, with metrics ks scoring the
\* prompts ps, outputs for the prompts os and Performance perf[m]
LoadedJob(j, ms, ks, ps, os, perf) ==
  [NewJob(j, Ascending(AggPrompts), Ascending(AggModelIds), 1)
     EXCEPT !.status = "completed",
            !.results =
              <<[job_id |-> j, completed_at |-> 1,
                 model_results |->
                   [i \in 1..Len(Ascending(ms)) |->
                      [model_id |-> Ascending(ms)[i],
                       outputs |-> OutputsFor(Ascending(ms)[i], os),
                       metrics |-> MetricResults(j, Ascending(ms)[i], ks, ps),
                       performance |-> perf[Ascending(ms)[i]]]]]>>]

\* a job whose Result is not there yet
UnfinishedJob(j) ==
  [NewJob(j, Ascending(AggPrompts), Ascending(AggModelIds), 1)
     EXCEPT !.status = "running"]

FirstPerf == [average_latency_ms |-> 100, total_cost_usd |-> 1,
              success_rate |-> 80, total_tokens |-> 10]

\* the jobs a grouping is tried on: for "metric" the models and the metrics
\* present vary, for "export" the models, the metrics, the per-prompt maps and
\* the outputs
JobPool(mode, j) ==
  {UnfinishedJob(j)} \cup
  {LoadedJob(j, ms, ks, ps, os, [m \in AggModelIds |-> FirstPerf]) :
     ms \in SUBSET AggModelIds, ks \in SUBSET (1..MaxMetrics),
     ps \in IF mode = "metric" THEN {AggPrompts} ELSE SUBSET AggPrompts,
     os \in IF mode = "metric" THEN {AggPrompts} ELSE {{}, AggPrompts}}

\* lists of n jobs with ids 1..n
RECURSIVE JobLists(_, _)
JobLists(mode, n) ==
  IF n = 0 THEN {<<>>}
  ELSE {Append(js, job) : js \in JobLists(mode, n - 1),
                          job \in JobPool(mode, n)}

\* the lists compareJobs can hand on: 2..MaxCompareIds valid jobs
ComparedLists(mode) == UNION {JobLists(mode, n) : n \in 2..MaxCompareIds}

\* what a compared job holds for the grouping by model: no Result, or a
\* Result with some of the models, each with one of the Performance records
ModelChoices ==
  {[has |-> FALSE, perf |-> <<>>]} \cup
  UNION {{[has |-> TRUE, perf |-> pf] : pf \in [ms -> Perfs]} :
         ms \in SUBSET AggModelIds}

JobOfChoice(j, c) ==
  IF c.has THEN LoadedJob(j, DOMAIN c.perf, {}, {}, {}, c.perf)
  ELSE UnfinishedJob(j)

\* compareByModel applied to a list of 2..MaxCompareIds loaded jobs
AgByModel ==
  /\ ag.pc = "idle"
  /\ \E n \in 2..MaxCompareIds :
       \E cs \in [1..n -> ModelChoices] :
          LET js == [i \in 1..n |-> JobOfChoice(i, cs[i])]
          IN ag' = [ag EXCEPT !.pc = "done", !.op = "model", !.jobs = js,
                              !.out = compareByModel(js)]
  /\ UNCHANGED <<storeAndCalls, wj, cj, lb, qy, wc>>

\* compareByMetric applied to a list of loaded jobs and a metric filter
AgByMetric ==
  /\ ag.pc = "idle"
  /\ \E js \in ComparedLists("metric"), f \in MetricFilters :
       ag' = [ag EXCEPT !.pc = "done", !.op = "metric", !.jobs = js,
                        !.metrics = f, !.out = compareByMetric(js, f)]
  /\ UNCHANGED <<storeAndCalls, wj, cj, lb, qy, wc>>

\* the result is handed back
AgReturn ==
  /\ ag.pc = "done"
  /\ ag' = AgIdle
  /\ UNCHANGED <<storeAndCalls, wj, cj, lb, qy, wc>>

NextByModel == AgByModel \/ AgReturn

SpecByModel == Init /\ [][NextByModel]_vars

NextByMetric == AgByMetric \/ AgReturn

SpecByMetric == Init /\ [][NextByMetric]_vars

(* ------------------------- CSV export ---------------------------------- *)
\* x || 0 for an optional output's field: <<>> stands for undefined
OrZero(found, field) ==
  IF found = <<>> THEN 0
  ELSE IF field = "latency_ms" THEN found[1].latency_ms ELSE found[1].cost_usd

\* the rows one (model, metric) pair adds, in Object.entries order of the
\* metric's per_prompt_scores
CsvMetricRows(job, mr, m) ==
  LET ps == Ascending(DOMAIN m.per_prompt_scores)
  IN [i \in 1..Len(ps) |->
        LET output == FindOutput(mr.outputs, ps[i])
        IN [job_id |-> job.id, model_id |-> mr.model_id, prompt_id |-> ps[i],
            metric_name |-> m.name, score |-> m.per_prompt_scores[ps[i]],
            latency_ms |-> OrZero(output, "latency_ms"),
            cost_usd |-> OrZero(output, "cost_usd")]]

RECURSIVE CsvModelRows(_, _, _)
CsvModelRows(job, mr, ms) ==
  IF ms = <<>> THEN <<>>
  ELSE CsvMetricRows(job, mr, Head(ms)) \o CsvModelRows(job, mr, Tail(ms))

RECURSIVE CsvRows(_, _)
CsvRows(job, mrs) ==
  IF mrs = <<>> THEN <<>>
  ELSE CsvModelRows(job, Head(mrs), Head(mrs).metrics)
       \o CsvRows(job, Tail(mrs))

\* convertToCsv of the results routes: the data rows after the header; a job
\* without results gives none
convertToCsv(job) ==
  IF job.results = <<>> THEN <<>>
  ELSE CsvRows(job, job.results[1].model_results)

\* the rows one model adds in the command-line tool's convertToCsv: one per
\* metric the filter lets through ("" for no filter)
CliModelRows(job, mr, metricFilter) ==
  LET kept == SelectSeq(mr.metrics,
                LAMBDA m : ~(metricFilter # "" /\ m.name # metricFilter))
  IN [i \in 1..Len(kept) |->
        [job_id |-> job.id, model_id |-> mr.model_id,
         metric_name |-> kept[i].name, score |-> kept[i].score,
         latency_ms |-> mr.performance.average_latency_ms,
         cost_usd |-> mr.performance.total_cost_usd]]

RECURSIVE CliRows(_, _, _)
CliRows(job, mrs, metricFilter) ==
  IF mrs = <<>> THEN <<>>
  ELSE CliModelRows(job, Head(mrs), metricFilter)
       \o CliRows(job, Tail(mrs), metricFilter)

\* GET /results/:jobId/export?format=csv on a job getJobResults returned
AgCsvApi ==
  /\ ag.pc = "idle"
  /\ \E job \in JobPool("export", 1) :
       ag' = [ag EXCEPT !.pc = "done", !.op = "csvApi", !.jobs = <<job>>,
                        !.out = convertToCsv(job)]
  /\ UNCHANGED <<storeAndCalls, wj, cj, lb, qy, wc>>

\* formatResults(job, 'csv', metricFilter) of the command-line tool:
\* job.results.model_results is read unguarded, a TypeError without results
AgCsvCli ==
  /\ ag.pc = "idle"
  /\ \E job \in JobPool("export", 1), f \in {""} \cup MetricNames :
       ag' = [ag EXCEPT !.pc = "done", !.op = "csvCli", !.jobs = <<job>>,
                        !.metrics = [given |-> f # "", names |-> {f} \ {""}],
                        !.thrown = (job.results = <<>>),
                        !.out = IF job.results = <<>> THEN <<>>
                                ELSE CliRows(job, job.results[1].model_results,
                                             f)]
  /\ UNCHANGED <<storeAndCalls, wj, cj, lb, qy, wc>>

NextCsv == AgCsvApi \/ AgCsvCli \/ AgReturn

SpecCsv == Init /\ [][NextCsv]_vars

(* ------------- compareJobs applied to the documents read --------------- *)
\* the sets 1..k of the first k of n numbered things
PrefixSets(n) == {1..k : k \in 0..n}

\* which prompts each model has an output for, a model numbered higher
\* having outputs for no more prompts
OutputChoices ==
  {o \in [AggModelIds -> PrefixSets(MaxAggPrompts)] :
     \A m \in AggModelIds : m > 1 => o[m] \subseteq o[m - 1]}

\* what the two documents of a compared job hold: its prompts, and, if the
\* Result is there, the prompts each model has an output for
DocChoices ==
  {[has |-> FALSE, prompts |-> qs, outs |-> <<>>] :
     qs \in PrefixSets(MaxAggPrompts)} \cup
  {[has |-> TRUE, prompts |-> qs, outs |-> o] :
     qs \in PrefixSets(MaxAggPrompts), o \in OutputChoices}

\* the metadata document of job j
MetaDoc(j, c) == NewJob(j, Ascending(c.prompts), Ascending(AggModelIds), 1)

\* the Result document of job j: every model with its outputs, with every
\* metric in use, each scoring the prompts ps, and a Performance
ResultDoc(j, c, ps) ==
  [job_id |-> j, completed_at |-> 1,
   model_results |->
     [m \in AggModelIds |->
        [model_id |-> m, outputs |-> OutputsFor(m, c.outs[m]),
         metrics |-> MetricResults(j, m, 1..MaxMetrics, ps),
         performance |-> FirstPerf]]]

\* compareJobs for a request naming MinValidJobs different jobs, each of
\* whose metadata documents is read whole and whose Result document is read
\* whole or found absent
AgCompare ==
  /\ ag.pc = "idle"
  /\ \E g \in GroupBys, ps \in PrefixSets(MaxAggPrompts),
        cs \in [1..MinValidJobs -> DocChoices] :
       LET docs == [i \in 1..MinValidJobs |->
                      [job |-> MetaDoc(i, cs[i]),
                       results |-> IF cs[i].has
                                   THEN <<ResultDoc(i, cs[i], ps)>>
                                   ELSE <<>>]]
           c == [job_ids |-> [i \in 1..MinValidJobs |-> i],
                 group_by |-> g, metrics |-> NoFilter,
                 jobData |-> [i \in 1..MinValidJobs |->
                                [kind |-> "full", doc |-> docs[i].job]],
                 resultsData |->
                   [i \in 1..MinValidJobs |->
                      IF cs[i].has
                      THEN [kind |-> "full", doc |-> docs[i].results[1]]
                      ELSE NoResData]]
       IN ag' = [ag EXCEPT !.pc = "done", !.op = "compare", !.docs = docs,
                           !.out = CompareResponse(c)]
  /\ UNCHANGED <<storeAndCalls, wj, cj, lb, qy, wc>>

NextGrouped == AgCompare \/ AgReturn

SpecGrouped == Init /\ [][NextGrouped]_vars

(* ------------------------- leaderboard --------------------------------- *)
\* the rankings getLeaderboard returns (scores in hundredths)
SampleRankings ==
  <<[rank |-> 1, model_id |-> "gpt-4", provider |-> "openai", score |-> 95],
    [rank |-> 2, model_id |-> "claude-3-opus", provider |-> "anthropic",
     score |-> 92],
    [rank |-> 3, model_id |-> "mixtral-8x7b", provider |-> "together",
     score |-> 88]>>

Providers == {"openai", "anthropic", "together", "local"}

\* the query's providers: omitted, or an array of provider names
ProviderFilters ==
  {NoFilter} \cup {[given |-> TRUE, names |-> ps] : ps \in SUBSET Providers}

DefaultLimit == 20

\* the query's limit: 1..100, 20 when omitted
Limits == (1..MaxLimit) \cup {DefaultLimit}

\* the query's metric: "" when omitted
LeaderboardMetrics == {"", "bleu"}

\* rankings.slice(0, limit)
Slice(seq, limit) == SubSeq(seq, 1, IF limit < Len(seq) THEN limit ELSE Len(seq))

\* truncation first, filter second
LeaderboardReply_sliceFirst(rankings, providers, limit) ==
  IF providers.given
  THEN SelectSeq(Slice(rankings, limit), LAMBDA r : r.provider \in providers.names)
  ELSE Slice(rankings, limit)

\* the route's handling of a successful result: filter by providers if given,
\* then slice
LeaderboardReply(rankings, providers, limit) ==
  IF providers.given
  THEN Slice(SelectSeq(rankings, LAMBDA r : r.provider \in providers.names),
             limit)
  ELSE Slice(rankings, limit)

\* GET /compare/leaderboard arrives
LbCallWith(metrics, limits, filters) ==
  /\ lb.pc = "idle"
  /\ \E m \in metrics, l \in limits, ps \in filters :
       lb' = [lb EXCEPT !.pc = "service", !.metric = m, !.limit = l,
                        !.providers = ps]
  /\ UNCHANGED <<storeAndCalls, wj, cj, ag, qy, wc>>

LbCall == LbCallWith(LeaderboardMetrics, Limits, ProviderFilters)

\* the query with nothing but defaults
LbCallPlain == LbCallWith({""}, {DefaultLimit}, {NoFilter})

\* comparisonService.getLeaderboard(metric)
LbService ==
  /\ lb.pc = "service"
  /\ lb' = [lb EXCEPT !.pc = "route", !.success = TRUE,
                      !.name = IF lb.metric = "" THEN "overall_score"
                               ELSE lb.metric,
                      !.rankings = SampleRankings]
  /\ UNCHANGED <<storeAndCalls, wj, cj, ag, qy, wc>>

\* the route filters and truncates, then reply.send(result)
LbReply ==
  /\ lb.pc = "route"
  /\ lb' = [lb EXCEPT !.pc = "done",
                      !.sent = IF lb.success
                               THEN LeaderboardReply(lb.rankings, lb.providers,
                                                     lb.limit)
                               ELSE <<>>]
  /\ UNCHANGED <<storeAndCalls, wj, cj, ag, qy, wc>>

LbReturn ==
  /\ lb.pc = "done"
  /\ lb' = LbIdle
  /\ UNCHANGED <<storeAndCalls, wj, cj, ag, qy, wc>>

Leaderboard == LbCall \/ LbService \/ LbReply \/ LbReturn

SpecLeaderboard == Init /\ [][Leaderboard]_vars

(* ------------------- metrics and providers queries --------------------- *)
ListedProviders == {"openai", "anthropic", "together", "huggingface", "local"}

\* the catch block left out: a rejected execFile escapes to the caller
QueryResponse_uncaught(op, rejected) ==
  IF rejected
  THEN [success |-> FALSE, code |-> "UNCAUGHT", data |-> {}]
  ELSE [success |-> TRUE, code |-> "",
        data |-> IF op = "metrics" THEN Range(AllMetricNames)
                 ELSE ListedProviders]

\* getAvailableMetrics / getAvailableProviders: the fixed list, or the
\* failure of the catch block when execFile rejects
QueryResponse(op, rejected) ==
  IF rejected
  THEN [success |-> FALSE,
        code |-> IF op = "metrics" THEN "GET_METRICS_FAILED"
                 ELSE "GET_PROVIDERS_FAILED",
        data |-> {}]
  ELSE [success |-> TRUE, code |-> "",
        data |-> IF op = "metrics" THEN Range(AllMetricNames)
                 ELSE ListedProviders]

QyCall ==
  /\ qy.pc = "idle"
  /\ \E op \in {"metrics", "providers"} :
       qy' = [qy EXCEPT !.pc = "exec", !.op = op]
  /\ UNCHANGED <<storeAndCalls, wj, cj, lb, ag, wc>>

\* await execFileAsync(evalBinaryPath, ['list-metrics' | 'list-providers'])
QyExecDone ==
  /\ qy.pc = "exec"
  /\ \E rejected \in BOOLEAN :
       qy' = [qy EXCEPT !.pc = "done", !.resp = QueryResponse(qy.op, rejected)]
  /\ UNCHANGED <<storeAndCalls, wj, cj, lb, ag, wc>>

QyReturn ==
  /\ qy.pc = "done"
  /\ qy' = QyIdle
  /\ UNCHANGED <<storeAndCalls, wj, cj, lb, ag, wc>>

(* ------------------- all public service operations --------------------- *)
\* comparison requests naming two ids, grouped by model
CjCallPairs == CjCallWith([1..2 -> JobIds], {"model"}, {NoFilter})

NoReader ==
  /\ gr.pc = "idle" /\ lj.pc = "idle" /\ cj.pc = "idle" /\ lb.pc = "idle"
  /\ qy.pc = "idle"

\* a reading call begins; the readers write nothing, so one at a time shows
\* all each can meet
ReaderCall ==
  NoReader /\ (GrCall \/ LjCall \/ CjCallPairs \/ LbCallPlain \/ QyCall)

ReaderStep ==
  \/ GrReadResults \/ GrReadJob \/ GrResolve \/ GrAccess \/ GrReturn
  \/ LjExec \/ LjReaddir \/ LjReadFile \/ LjReturn \/ LjDone
  \/ CjReadJob \/ CjReadResults \/ CjSettle \/ CjReturn
  \/ LbService \/ LbReply \/ LbReturn
  \/ QyExecDone \/ QyReturn

\* SeCallPlain, at most MaxStatusJobs times
SeCallPlainBounded == Cardinality(usedIds) < MaxStatusJobs /\ SeCallPlain

\* the writers run alongside getJobResults and listJobs
WriterStep ==
  /\ cj.pc = "idle" /\ lb.pc = "idle" /\ qy.pc = "idle"
  /\ \/ SeCallPlainBounded \/ SeOpenConfig \/ SeWriteConfigPart
     \/ SeWriteConfig \/ SeOpenJob \/ SeWriteJobPart \/ SeWriteJob
     \/ SeExec \/ SeExecDone \/ SeReturn \/ EngineBare

NextPublic == ReaderCall \/ ReaderStep \/ WriterStep

SpecPublic == Init /\ [][NextPublic]_vars

(* ------------------- SDK waitForCompletion ----------------------------- *)
\* the client's clock runs from 0 at the call; past MaxTime every timeout in
\* 1..MaxTimeout has long elapsed, and the reading stays there
MaxTime == MaxTimeout + MaxPollInterval + MaxLatency + 1

After(now, d) == IF now + d < MaxTime THEN now + d ELSE MaxTime

JobStatuses == {"pending", "running", "completed", "failed", "cancelled"}

\* a loop that never looks at the clock
LoopCondition_unbounded(now, startTime, timeout) == TRUE

\* while (Date.now() - startTime < timeout)
LoopCondition(now, startTime, timeout) == now - startTime < timeout

\* waitForCompletion(jobId, options): pollInterval and timeout are the
\* options' values or the (positive) defaults
WcCall ==
  /\ wc.pc = "idle"
  /\ \E p \in 1..MaxPollInterval, t \in 1..MaxTimeout :
       wc' = [WcIdle EXCEPT !.pc = "check", !.pollInterval = p, !.timeout = t]
  /\ UNCHANGED <<storeAndCalls, wj, cj, lb, ag, qy>>

\* the loop condition: go on to poll, or leave the loop, emit jobTimeout and
\* throw the timeout error
WcCheck ==
  /\ wc.pc = "check"
  /\ wc' = IF LoopCondition(wc.now, wc.startTime, wc.timeout)
           THEN [wc EXCEPT !.pc = "poll"]
           ELSE [wc EXCEPT !.pc = "ended", !.outcome = "timeout",
                           !.events = Append(@, "jobTimeout")]
  /\ UNCHANGED <<storeAndCalls, wj, cj, lb, ag, qy>>

\* await this.getJobStatus(jobId) settles: the request failed (the call
\* throws), or a status came back: jobProgress, then the terminal cases
WcPoll ==
  /\ wc.pc = "poll"
  /\ \E d \in 0..MaxLatency, r \in JobStatuses \cup {"request failed"} :
       LET t == After(wc.now, d) IN
       wc' =
         CASE r = "request failed" ->
                [wc EXCEPT !.pc = "ended", !.now = t, !.outcome = "error",
                           !.polls = @ + 1, !.allRunning = FALSE]
           [] r = "completed" ->
                [wc EXCEPT !.pc = "results", !.now = t, !.polls = @ + 1,
                           !.allRunning = FALSE,
                           !.events = Append(@, "jobProgress")]
           [] r = "failed" ->
                [wc EXCEPT !.pc = "ended", !.now = t, !.polls = @ + 1,
                           !.allRunning = FALSE, !.outcome = "failed",
                           !.events = @ \o <<"jobProgress", "jobFailed">>]
           [] r = "cancelled" ->
                [wc EXCEPT !.pc = "ended", !.now = t, !.polls = @ + 1,
                           !.allRunning = FALSE, !.outcome = "cancelled",
                           !.events = @ \o <<"jobProgress", "jobCancelled">>]
           [] OTHER ->
                [wc EXCEPT !.pc = "sleep", !.now = t, !.polls = @ + 1,
                           !.allRunning = @ /\ r = "running",
                           !.events = Append(@, "jobProgress")]
  /\ UNCHANGED <<storeAndCalls, wj, cj, lb, ag, qy>>

\* the job handed back without jobCompleted being emitted
WcGetResults_unannounced ==
  /\ wc.pc = "results"
  /\ \E d \in 0..MaxLatency, ok \in BOOLEAN :
       wc' = [wc EXCEPT !.pc = "ended", !.now = After(@, d),
                        !.outcome = IF ok THEN "resolved" ELSE "error"]
  /\ UNCHANGED <<storeAndCalls, wj, cj, lb, ag, qy>>

\* await this.getResults(jobId) settles: jobCompleted and the job, or a throw
WcGetResults ==
  /\ wc.pc = "results"
  /\ \E d \in 0..MaxLatency, ok \in BOOLEAN :
       wc' = IF ok
             THEN [wc EXCEPT !.pc = "ended", !.now = After(@, d),
                             !.outcome = "resolved",
                             !.events = Append(@, "jobCompleted")]
             ELSE [wc EXCEPT !.pc = "ended", !.now = After(@, d),
                             !.outcome = "error"]
  /\ UNCHANGED <<storeAndCalls, wj, cj, lb, ag, qy>>

\* await new Promise(resolve => setTimeout(resolve, pollInterval)): the timer
\* fires pollInterval later, or somewhat after that
WcSleep ==
  /\ wc.pc = "sleep"
  /\ \E d \in 0..MaxLatency :
       wc' = [wc EXCEPT !.pc = "check",
                        !.now = After(@, wc.pollInterval + d)]
  /\ UNCHANGED <<storeAndCalls, wj, cj, lb, ag, qy>>

\* the promise has settled
WcReturn ==
  /\ wc.pc = "ended"
  /\ wc' = WcIdle
  /\ UNCHANGED <<storeAndCalls, wj, cj, lb, ag, qy>>

WaitForCompletion ==
  WcCall \/ WcCheck \/ WcPoll \/ WcGetResults \/ WcSleep \/ WcReturn

\* the event loop runs every continuation and timer that is due
SpecWait == Init /\ [][WaitForCompletion]_vars /\ WF_vars(WaitForCompletion)

(* ------------------------- CLI watchJob -------------------------------- *)
\* the statuses after which a job no longer changes
TerminalStatuses == {"completed", "failed", "cancelled"}

\* the statuses a job can move to from status s
NextStatuses(s) ==
  CASE s = "pending" -> {"running"} \cup TerminalStatuses
    [] s = "running" -> TerminalStatuses
    [] OTHER -> {}

\* watchJob(jobId, outputFormat): the spinner starts, lastStatus = ''
WjCall ==
  /\ wj.pc = "idle"
  /\ wj' = [WjIdle EXCEPT !.pc = "status", !.job = wj.job,
                          !.spinner = "waiting"]
  /\ UNCHANGED <<storeAndCalls, cj, lb, ag, qy, wc>>

\* the job moves on at the server, whatever the watcher does
WjJobStep ==
  /\ \E s \in NextStatuses(wj.job) : wj' = [wj EXCEPT !.job = s]
  /\ UNCHANGED <<storeAndCalls, cj, lb, ag, qy, wc>>

\* the progress a status reply carries, if it carries one
WatchProgresses ==
  {[given |-> FALSE, percentage |-> 0]} \cup
  {[given |-> TRUE, percentage |-> (100 * k) \div MaxWatchSteps] :
     k \in 0..MaxWatchSteps}

\* what one pass of the loop body does with the status it got: the branch on
\* job.status !== lastStatus, then either a break or the 5 s sleep
WatchBody(w, status, progress) ==
  IF status = w.lastStatus THEN [w EXCEPT !.pc = "sleep"]
  ELSE CASE status = "running" /\ progress.given ->
              [w EXCEPT !.pc = "sleep", !.lastStatus = status,
                        !.spinner = "running",
                        !.percentage = progress.percentage]
         [] status = "completed" ->
              [w EXCEPT !.pc = "results", !.lastStatus = status,
                        !.spinner = "succeeded"]
         [] status = "failed" ->
              [w EXCEPT !.pc = "ended", !.lastStatus = status,
                        !.spinner = "failed"]
         [] OTHER -> [w EXCEPT !.pc = "sleep", !.lastStatus = status]

\* await axios.get(`/results/${jobId}/status`) settles: it throws (the catch
\* block fails the spinner and breaks) or the job's status comes back
WjStatus ==
  /\ wj.pc = "status"
  /\ \/ wj' = [wj EXCEPT !.pc = "ended", !.spinner = "error"]
     \/ \E progress \in WatchProgresses :
          wj' = WatchBody(wj, wj.job, progress)
  /\ UNCHANGED <<storeAndCalls, cj, lb, ag, qy, wc>>

\* await axios.get(`/results/${jobId}`) settles: the results are printed, or
\* the request throws into the same catch block
WjResults ==
  /\ wj.pc = "results"
  /\ \/ wj' = [wj EXCEPT !.pc = "ended", !.printed = TRUE]
     \/ wj' = [wj EXCEPT !.pc = "ended", !.spinner = "error"]
  /\ UNCHANGED <<storeAndCalls, cj, lb, ag, qy, wc>>

\* await new Promise(resolve => setTimeout(resolve, checkInterval)), then
\* while (true) goes round
WjSleep ==
  /\ wj.pc = "sleep"
  /\ wj' = [wj EXCEPT !.pc = "status"]
  /\ UNCHANGED <<storeAndCalls, cj, lb, ag, qy, wc>>

\* the loop was left and watchJob's promise has settled
WjReturn ==
  /\ wj.pc = "ended"
  /\ wj' = [WjIdle EXCEPT !.job = wj.job]
  /\ UNCHANGED <<storeAndCalls, cj, lb, ag, qy, wc>>

\* a new job is watched next
WjNewJob ==
  /\ wj.pc = "idle"
  /\ wj.job \in TerminalStatuses
  /\ wj' = WjIdle
  /\ UNCHANGED <<storeAndCalls, cj, lb, ag, qy, wc>>

WatchJob == WjCall \/ WjStatus \/ WjResults \/ WjSleep \/ WjReturn

NextWatch == WatchJob \/ WjJobStep \/ WjNewJob

\* the event loop runs every continuation and timer of the watcher that is
\* due; nothing obliges the job to move on
SpecWatch == Init /\ [][NextWatch]_vars /\ WF_vars(WatchJob)

(* ------------------------- properties ---------------------------------- *)
GrDone == gr.pc = "done"
GrJob == gr.resp.data
Merged(job) == job.results # <<>>

\* C1: a successful getJobResults reports 'completed' exactly when the job's
\* Result document exists and parses, and then the Result is merged into the
\* returned job: 'completed' implies a merged Result and a complete Result
\* document in the store, and a Result document that was already complete
\* when the call began implies 'completed' with the Result merged.
C1_CompletedIffResultParses ==
  (GrDone /\ gr.resp.success) =>
     /\ GrJob.status = "completed" =>
          (Merged(GrJob) /\ results[gr.jobId].file = "full")
     /\ gr.resultAtCall = "full" =>
          (GrJob.status = "completed" /\ Merged(GrJob))

\* C2: when the metadata document was read completely and the Result document
\* was read but does not parse (zero-length or a prefix of its text), the call
\* succeeds with status 'running' and no Result.
C2_UnparseableResultIsRunning ==
  (GrDone /\ Parses(gr.jobData) /\ gr.resultsData.kind \in {"empty", "partial"}) =>
     (gr.resp.success /\ GrJob.status = "running" /\ ~Merged(GrJob))

\* C3: when the engine publishes the Result while the call runs (the call read
\* the Result document as absent or as complete, never half-written), a
\* successful getJobResults returns either 'running' without a Result or
\* 'completed' with the Result merged and completed_at taken from it; never
\* 'completed' without a Result.
C3_NeverCompletedWithoutResult ==
  (GrDone /\ gr.resp.success /\ gr.resultsData.kind \in {"null", "full"}) =>
     \/ GrJob.status = "running" /\ ~Merged(GrJob)
     \/ /\ GrJob.status = "completed" /\ Merged(GrJob)
        /\ GrJob.completed_at = GrJob.results[1].completed_at

NonEmptySets(job) == job.prompts # <<>> /\ job.models # <<>>

\* C4: the percentage the status route reports is a number within 0..100,
\* whatever the Result holds (stated for jobs with at least one prompt and
\* one model; the empty sets are the case of C5).
C4_PercentageInRange ==
  (GrDone /\ gr.reply.hasProgress /\ NonEmptySets(GrJob)) =>
     /\ gr.reply.percentage.kind = "num"
     /\ gr.reply.percentage.val \in 0..100

\* C5: for a job with no models or no prompts the status route reports
\* percentage 0 and completed_prompts 0.
C5_EmptySetsYieldZero ==
  (GrDone /\ gr.resp.success /\ (GrJob.models = <<>> \/ GrJob.prompts = <<>>)) =>
     (gr.reply.percentage = Num(0) /\ gr.reply.completed_prompts = Num(0))

\* C6: when the status route reports 'completed' for a job whose Result was
\* read and parsed, the percentage is 100 (stated for jobs with at least one
\* prompt and one model; the empty sets are the case of C5).
C6_CompletedIsHundred ==
  (GrDone /\ gr.resp.success /\ GrJob.status = "completed" /\ Merged(GrJob)
     /\ NonEmptySets(GrJob)) =>
     gr.reply.percentage = Num(100)

\* C7: getJobResults ends with JOB_NOT_FOUND exactly when the metadata file
\* did not exist when the call read it.
C7_NotFoundIffMetadataAbsent ==
  GrDone => (gr.resp.code = "JOB_NOT_FOUND" <=> gr.jobData.kind = "null")

\* positions of job id j in a list of jobs
Positions(list, j) == {i \in DOMAIN list : list[i].id = j}

SortedByCreatedDesc(list) ==
  \A i, k \in DOMAIN list : i < k => list[i].created_at >= list[k].created_at

\* C8: a successful listJobs returns every job whose metadata document was
\* completely written when the directory was read exactly once, no job twice,
\* in descending order of created_at.
C8_ListReturnsAllJobsSorted ==
  (lj.pc = "done" /\ lj.resp.success) =>
     /\ \A j \in lj.fullAtReaddir : Cardinality(Positions(lj.resp.data, j)) = 1
     /\ \A j \in JobIds : Cardinality(Positions(lj.resp.data, j)) <= 1
     /\ SortedByCreatedDesc(lj.resp.data)

SeSucceeded == se.pc = "done" /\ se.resp.success

Distinct(ids) == \A i, k \in DOMAIN ids : i # k => ids[i] # ids[k]

\* what C9 states about the config and metadata documents and the ids
CreatedPending(J) ==
  /\ configs[J] = "full"
  /\ jobs[J].file = "full"
  /\ jobs[J].doc.id = J
  /\ jobs[J].doc.status = "pending"
  /\ jobs[J].doc.results = <<>>
  /\ Distinct(Append(returnedIds, J))
  /\ ~overwrote

\* C9 as stated: after a successful startEvaluation returning J the config
\* and metadata documents are completely written under J, the metadata has
\* id J, status 'pending' and no Result, no Result document exists for J
\* when the call returns, returned ids are pairwise distinct and no document was overwritten.
C9_Original ==
  SeSucceeded =>
     (CreatedPending(se.resp.job_id) /\ se.resultAtReturn = "absent")

\* C9 amended: the same, without the statement that no Result document exists
\* for J (the engine, started inside the call, may already have written one).
C9_Amended == SeSucceeded => CreatedPending(se.resp.job_id)

\* a second successful call is about to return
C9_Witness == SeSucceeded /\ returnedIds # <<>>

\* C10: no reader ever reads a metadata document that is created but not yet
\* completely written: every read yields nothing or the complete text.
C10_NoHalfWrittenObserved ==
  /\ gr.jobData.kind \notin {"empty", "partial"}
  /\ lj.read \notin {"empty", "partial"}

\* C11: startEvaluation fails exactly when the engine invocation gave some
\* indication of trouble (the process failed, or wrote any diagnostic text),
\* and succeeds with the job id only when it gave none.
C11_FailsOnAnyDiagnostic ==
  se.pc = "done" =>
     /\ se.resp.success = ~(se.out.rejected \/ se.out.stderr # "")
     /\ se.resp.success => se.resp.job_id = se.jobId

\* compareJobs has answered a request naming pairwise distinct job ids
CjDone ==
  /\ cj.pc = "done" /\ cj.resp.code # "FST_ERR_VALIDATION"
  /\ Cardinality(Range(cj.job_ids)) = Len(cj.job_ids)

\* the requested positions whose metadata document was read whole (a job is
\* there to load); an absent or incompletely written Result is "not yet
\* available" and does not make the job unloadable
LoadablePositions == {i \in DOMAIN cj.job_ids : Parses(cj.jobData[i])}

\* C12: compareJobs answers INSUFFICIENT_JOBS when 0 or 1 of the requested ids
\* are loadable and succeeds when 2 or more are; it gives no other error.
C12_InsufficientIffFewerThanTwo ==
  CjDone =>
     /\ Cardinality(LoadablePositions) < 2 =>
          (~cj.resp.success /\ cj.resp.code = "INSUFFICIENT_JOBS")
     /\ Cardinality(LoadablePositions) >= 2 => cj.resp.success

\* C13: a comparison request naming fewer than 2 distinct job ids is rejected
\* (answered with a failure), and no Comparison is produced.
C13_DistinctIdsRequired ==
  (cj.pc = "done" /\ Cardinality(Range(cj.job_ids)) < 2) =>
     (~cj.resp.success /\ cj.httpCode = 400 /\ cj.resp.data = NoComparison)

\* the Performance records of model m in the Results of the jobs compared, in
\* list order
RECURSIVE PerformancesOf(_, _)
PerformancesOf(m, js) ==
  IF js = <<>> THEN <<>>
  ELSE LET mrs == IF Head(js).results = <<>> THEN <<>>
                  ELSE Head(js).results[1].model_results
           mine == SelectSeq(mrs, LAMBDA mr : mr.model_id = m)
       IN [i \in 1..Len(mine) |->
             [job_id |-> Head(js).id, performance |-> mine[i].performance]]
          \o PerformancesOf(m, Tail(js))

ModelsIn(js) ==
  {m \in AggModelIds : PerformancesOf(m, js) # <<>>}

\* q is the arithmetic mean of the numbers ns
IsMeanOf(q, ns) == q.den > 0 /\ q.num * Len(ns) = SumOf(ns) * q.den

AgModelDone == ag.pc = "done" /\ ag.op = "model"

\* C14: in a model-grouped comparison the models in the output are those in
\* some compared Result; each has a non-empty job list with one entry per
\* compared job whose Result contains it, and its aggregates are the plain
\* means over those entries of latency, cost and success rate and the sum of
\* total_tokens.
C14_ModelGroupMeans ==
  AgModelDone =>
     /\ {ag.out[i].model_id : i \in DOMAIN ag.out} = ModelsIn(ag.jobs)
     /\ \A i \in DOMAIN ag.out :
          LET g == ag.out[i]
              ps == PerformancesOf(g.model_id, ag.jobs)
              s == g.performance_summary
          IN /\ Len(g.jobs) > 0
             /\ [k \in DOMAIN g.jobs |->
                   [job_id |-> g.jobs[k].job_id,
                    performance |-> g.jobs[k].performance]] = ps
             /\ IsMeanOf(s.avg_latency,
                  [k \in DOMAIN ps |-> ps[k].performance.average_latency_ms])
             /\ IsMeanOf(s.avg_cost,
                  [k \in DOMAIN ps |-> ps[k].performance.total_cost_usd])
             /\ IsMeanOf(s.avg_success_rate,
                  [k \in DOMAIN ps |-> ps[k].performance.success_rate])
             /\ s.total_evaluations =
                  SumOf([k \in DOMAIN ps |-> ps[k].performance.total_tokens])

\* two jobs gave one model latencies 100 and 200 and success rates 80% and
\* 60%: the aggregates are 300 / 2 = 150 and 140 / 2 = 70%
C14_Witness ==
  /\ AgModelDone
  /\ \E i \in DOMAIN ag.out :
       LET g == ag.out[i]
       IN /\ Len(g.jobs) = 2
          /\ g.jobs[1].performance.average_latency_ms = 100
          /\ g.jobs[2].performance.average_latency_ms = 200
          /\ g.performance_summary.avg_latency = Quot(300, 2)
          /\ g.performance_summary.avg_success_rate = Quot(140, 2)

AgMetricDone == ag.pc = "done" /\ ag.op = "metric"

\* the metric names occurring in the Result of some compared job
MetricsIn(js) ==
  UNION {{ModelPairs(js)[i].mr.metrics[k].name :
            k \in DOMAIN ModelPairs(js)[i].mr.metrics} :
         i \in DOMAIN ModelPairs(js)}

\* C15: in a metric-grouped comparison a metric name appears exactly when it
\* occurs in the Result of some compared job and the filter is omitted, is
\* empty, or contains it.
C15_MetricFilter ==
  AgMetricDone =>
     {ag.out[i].metric_name : i \in DOMAIN ag.out} =
       {n \in MetricsIn(ag.jobs) :
          \/ ~ag.metrics.given
          \/ ag.metrics.names = {}
          \/ n \in ag.metrics.names}

LbDone == lb.pc = "done" /\ lb.success

\* the ranking before filtering is in descending score order (equal scores
\* staying in encounter order needs no more than that of a list as given)
DescendingByScore(rs) ==
  \A i, k \in DOMAIN rs : i < k => rs[i].score >= rs[k].score

InFilter(r) == ~lb.providers.given \/ r.provider \in lb.providers.names

\* C16: the leaderboard reply is the first `limit` entries of the
\* provider-filtered ranking: descending by score, holding exactly the entries
\* whose provider is in the filter set, the filter applied before truncation.
C16_FilterThenLimit ==
  LbDone =>
     LET kept == SelectSeq(lb.rankings, InFilter)
     IN /\ DescendingByScore(lb.rankings)
        /\ DescendingByScore(lb.sent)
        /\ Len(lb.sent) = IF lb.limit < Len(kept) THEN lb.limit ELSE Len(kept)
        /\ \A i \in DOMAIN lb.sent : lb.sent[i] = kept[i]

\* a filter that drops the top entry, and a limit that cuts what is left
C16_Witness ==
  /\ LbDone
  /\ lb.providers = [given |-> TRUE, names |-> {"anthropic", "together"}]
  /\ lb.limit = 1
  /\ Len(lb.sent) = 1 /\ lb.sent[1].provider = "anthropic"

\* C17: the leaderboard holds exactly the models observed in the Results of
\* completed jobs in the store; in particular, while no job has a Result the
\* ranking is empty.
C17_RankingFromCompletedJobs ==
  (LbDone /\ \A j \in JobIds : results[j].file # "full") => lb.rankings = <<>>

AgCsvDone == ag.pc = "done" /\ ag.op \in {"csvApi", "csvCli"}

\* the (model result, metric result, prompt id) triples of a job's Result, the
\* prompt ids being those of the metric's per-prompt score map, as rows
ExpectedRows(job) ==
  IF job.results = <<>> THEN {}
  ELSE LET mrs == job.results[1].model_results
       IN UNION {UNION {{[job_id |-> job.id, model_id |-> mrs[i].model_id,
                          prompt_id |-> p,
                          metric_name |-> mrs[i].metrics[k].name,
                          score |-> mrs[i].metrics[k].per_prompt_scores[p],
                          latency_ms |->
                            OrZero(FindOutput(mrs[i].outputs, p), "latency_ms"),
                          cost_usd |->
                            OrZero(FindOutput(mrs[i].outputs, p), "cost_usd")] :
                         p \in DOMAIN mrs[i].metrics[k].per_prompt_scores} :
                       k \in DOMAIN mrs[i].metrics} :
                 i \in DOMAIN mrs}

\* C18: the CSV export of a job has exactly one data row per (model, metric,
\* prompt id in that metric's per-prompt map) triple of its Result, carrying
\* that triple's values, and no other data row; none for a job without a
\* Result.
C18_OneRowPerTriple ==
  AgCsvDone =>
     /\ ~ag.thrown
     /\ Range(ag.out) = ExpectedRows(ag.jobs[1])
     /\ Len(ag.out) = Cardinality(ExpectedRows(ag.jobs[1]))

\* a tagged outcome: success, or a failure carrying one of the operation's
\* codes ("UNCAUGHT" standing for an exception that reached the caller)
Tagged(success, code, codes) == IF success THEN code = "" ELSE code \in codes

\* C19: every public service operation ends with a tagged outcome, success
\* with data or failure with an error code, in every store state and for every
\* input; none lets an exception reach its caller.
C19_TaggedOutcomes ==
  /\ se.pc = "done" =>
       /\ Tagged(se.resp.success, se.resp.code, {"EVAL_START_FAILED"})
       /\ se.resp.success => se.resp.job_id \in JobIds
  /\ gr.pc = "done" =>
       /\ Tagged(gr.resp.success, gr.resp.code,
                 {"JOB_NOT_FOUND", "READ_ERROR", "GET_RESULTS_FAILED"})
       /\ gr.resp.success => gr.resp.data.id = gr.jobId
  /\ lj.pc = "done" =>
       Tagged(lj.resp.success, lj.resp.code, {"LIST_JOBS_FAILED"})
  /\ qy.pc = "done" =>
       /\ Tagged(qy.resp.success, qy.resp.code,
                 {"GET_METRICS_FAILED", "GET_PROVIDERS_FAILED"})
       /\ qy.resp.success => qy.resp.data # {}
  /\ (cj.pc = "done" /\ cj.resp.code # "FST_ERR_VALIDATION") =>
       /\ Tagged(cj.resp.success, cj.resp.code,
                 {"INSUFFICIENT_JOBS", "COMPARISON_FAILED"})
       /\ cj.resp.success => cj.resp.data # NoComparison
  /\ lb.pc \in {"route", "done"} =>
       Tagged(lb.success, lb.code, {"LEADERBOARD_FAILED"})

\* an engine query failed and the failure came back as an outcome
C19_Witness ==
  qy.pc = "done" /\ ~qy.resp.success /\ qy.resp.code = "GET_METRICS_FAILED"

\* polls begin only before the timeout has elapsed, a fixed interval apart
\* (so there are fewer than timeout / pollInterval + 1 of them), and a call
\* whose every poll said 'running' ends in the timeout outcome: jobTimeout
\* last, no jobFailed
PollingBounded ==
  /\ wc.pc = "poll" => wc.now - wc.startTime < wc.timeout
  /\ wc.polls > 0 => (wc.polls - 1) * wc.pollInterval < wc.timeout
  /\ (wc.pc = "ended" /\ wc.allRunning) =>
       /\ wc.outcome = "timeout"
       /\ wc.now - wc.startTime >= wc.timeout
       /\ wc.events[Len(wc.events)] = "jobTimeout"
       /\ \A i \in DOMAIN wc.events : wc.events[i] # "jobFailed"

\* C20: waitForCompletion is a bounded polling loop with a fixed interval: for
\* a job that stays 'running' it stops polling once the timeout has elapsed
\* and ends with the timeout outcome (jobTimeout, no jobFailed); every call
\* ends.
C20_BoundedPolling ==
  []PollingBounded /\ ((wc.pc # "idle") ~> (wc.pc = "ended"))

\* a call that polled a 'running' job more than once has timed out
C20_Witness ==
  /\ wc.pc = "ended" /\ wc.allRunning /\ wc.polls >= 2
  /\ wc.outcome = "timeout"

\* C21: watchJob is a bounded polling loop: every call that has begun comes
\* to an end, when the job reaches a terminal status or else at a timeout
C21_WatchLoopEnds == (wj.pc # "idle") ~> (wj.pc = "ended")

\* the persisted store: config, metadata and Result documents
store == <<configs, jobs, results>>

\* the calls other than startEvaluation
readers == <<gr, lj, cj, lb, qy>>

\* C22: every operation other than startEvaluation leaves the persisted store
\* unchanged: a step in which getJobResults / the status operation, listJobs,
\* compareJobs, the leaderboard or a metrics/providers query moves creates,
\* modifies and deletes no config, metadata or Result document
C22_ReadersLeaveStore == [][readers' # readers => store' = store]_vars

\* getJobResults has reported a completed job with its Result, and the Result
\* document is still there
C22_Witness ==
  /\ gr.pc = "done" /\ gr.resp.success
  /\ gr.resp.data.status = "completed" /\ gr.resp.data.results # <<>>
  /\ results[gr.jobId].file = "full"
  /\ gr.resp.data.results[1] = results[gr.jobId].doc

\* what a load of the id at position i yields from the store as it is
StoredJob(i) == ReadFile(jobs[cj.job_ids[i]])
StoredResult(i) == ReadFile(results[cj.job_ids[i]])

\* the ids, in the caller's order, of the positions in ps
RECURSIVE IdsAt(_, _)
IdsAt(ids, ps) ==
  IF ids = <<>> THEN <<>>
  ELSE LET n == Len(ids) IN
       IdsAt(SubSeq(ids, 1, n - 1), ps) \o
         (IF n \in ps THEN <<ids[n]>> ELSE <<>>)

\* compareJobs has answered a request the schema let through
CjSettled == cj.pc = "done" /\ cj.resp.code # "FST_ERR_VALIDATION"

\* C23: for a fixed store state the outcome of compareJobs does not depend on
\* the order in which the loads complete: whatever the order, each position
\* holds what its own id's documents yield, jobs_compared lists the jobs that
\* loaded in the order the caller supplied their ids, and the whole response
\* is the one the store and the request determine
C23_LoadOrderIndependent ==
  CjSettled =>
    LET loaded == {i \in DOMAIN cj.job_ids :
                     Loads(StoredJob(i), StoredResult(i))}
        fromStore == [cj EXCEPT
                        !.jobData = [i \in DOMAIN cj.job_ids |-> StoredJob(i)],
                        !.resultsData =
                          [i \in DOMAIN cj.job_ids |-> StoredResult(i)]]
    IN /\ cj.resp.success <=> Cardinality(loaded) >= 2
       /\ cj.resp.success =>
            cj.resp.data.jobs_compared = IdsAt(cj.job_ids, loaded)
       /\ cj.resp = CompareResponse(fromStore)

\* a comparison of two different jobs whose ids were given in descending
\* order has succeeded
C23_Witness ==
  /\ CjSettled /\ cj.resp.success
  /\ Len(cj.resp.data.jobs_compared) >= 2
  /\ cj.resp.data.jobs_compared[1] > cj.resp.data.jobs_compared[2]

\* compareJobs has been applied to the documents in ag.docs
AgCompared == ag.pc = "done" /\ ag.op = "compare"

\* the compared jobs whose Result document is not there
WithoutResult == {i \in DOMAIN ag.docs : ag.docs[i].results = <<>>}

\* the job ids the entries of one group of the grouped data refer to
JobIdsIn(group_by, group) ==
  LET entries == CASE group_by = "model"  -> group.jobs
                   [] group_by = "prompt" -> group.model_performances
                   [] OTHER               -> group.model_scores
  IN {entries[k].job_id : k \in DOMAIN entries}

\* C24: a loadable job without a Result counts toward the 2-job minimum of
\* compareJobs (two such jobs are enough for the comparison to succeed), is
\* listed in jobs_compared, and for every groupBy no job-list entry, metric
\* score or model performance of the grouped data refers to it
C24_ResultlessJobSkipped ==
  AgCompared =>
    \A i \in WithoutResult :
      /\ ag.out.success
      /\ ag.docs[i].job.id \in Range(ag.out.data.jobs_compared)
      /\ \A g \in DOMAIN ag.out.data.data :
           ag.docs[i].job.id \notin
             JobIdsIn(ag.out.data.comparison_type, ag.out.data.data[g])

\* a job without a Result was compared with a job that has one, and the
\* grouped data has entries
C24_Witness ==
  /\ AgCompared /\ ag.out.success
  /\ WithoutResult # {} /\ WithoutResult # DOMAIN ag.docs
  /\ \E g \in DOMAIN ag.out.data.data :
       JobIdsIn(ag.out.data.comparison_type, ag.out.data.data[g]) # {}

\* the model results in the Result document of compared job i
ModelResultsAt(i) ==
  IF ag.docs[i].results = <<>> THEN <<>>
  ELSE ag.docs[i].results[1].model_results

\* the (job, model) positions whose job has prompt p among its prompts and
\* whose model has, in the job's Result, an output with prompt id p
PairsWithOutput(p) ==
  {<<i, k>> \in (DOMAIN ag.docs) \X AggModelIds :
     /\ p \in Range(ag.docs[i].job.prompts)
     /\ k \in DOMAIN ModelResultsAt(i)
     /\ \E o \in DOMAIN ModelResultsAt(i)[k].outputs :
          ModelResultsAt(i)[k].outputs[o].prompt_id = p}

\* the metrics of a model result whose per-prompt map has a score for p,
\* each with that score
ScoredFor(mr, p) ==
  {[name |-> mr.metrics[x].name, score |-> mr.metrics[x].per_prompt_scores[p]] :
     x \in {y \in DOMAIN mr.metrics :
              p \in DOMAIN mr.metrics[y].per_prompt_scores}}

\* C25: in a prompt-grouped comparison of different jobs, each with distinct
\* prompt ids, the entry of prompt p holds one model-performance record for
\* exactly each (job, model) pair such that p is among the job's prompts and
\* the model's outputs in the job's Result contain one with prompt id p (the
\* other pairs are left out, not zero-filled), and each record's metrics are
\* the metrics whose per-prompt map has a score for p, no others
C25_PromptEntries ==
  (AgCompared /\ ag.out.success /\ ag.out.data.comparison_type = "prompt") =>
    LET data == ag.out.data.data IN
    /\ \A i \in DOMAIN ag.docs : \A p \in Range(ag.docs[i].job.prompts) :
         \E g \in DOMAIN data : data[g].prompt_id = p
    /\ \A g \in DOMAIN data :
         LET p == data[g].prompt_id
             perfs == data[g].model_performances
             pairs == PairsWithOutput(p)
         IN /\ Len(perfs) = Cardinality(pairs)
            /\ \A pr \in pairs :
                 \E x \in DOMAIN perfs :
                   /\ perfs[x].job_id = ag.docs[pr[1]].job.id
                   /\ perfs[x].model_id = ModelResultsAt(pr[1])[pr[2]].model_id
                   /\ perfs[x].output.prompt_id = p
                   /\ Range(perfs[x].metrics) =
                        ScoredFor(ModelResultsAt(pr[1])[pr[2]], p)
                   /\ Len(perfs[x].metrics) =
                        Cardinality(ScoredFor(ModelResultsAt(pr[1])[pr[2]], p))

\* a prompt both jobs have: one model has an output for it in one job only,
\* so its entry holds fewer records than there are (job, model) pairs, and a
\* record of it has no metric because no per-prompt map scores the prompt
C25_Witness ==
  /\ AgCompared /\ ag.out.success /\ ag.out.data.comparison_type = "prompt"
  /\ \E g \in DOMAIN ag.out.data.data :
       LET perfs == ag.out.data.data[g].model_performances
       IN /\ \A i \in DOMAIN ag.docs :
               ag.out.data.data[g].prompt_id \in Range(ag.docs[i].job.prompts)
          /\ Len(perfs) > 0
          /\ Len(perfs) < Len(ag.docs) * MaxAggModels
          /\ \E x \in DOMAIN perfs : perfs[x].metrics = <<>>

\* C26: the status successive getJobResults calls report for a job is
\* monotonic: once a call has reported 'completed', every later call for that
\* job succeeds and reports 'completed', the engine writing the job's Result
\* once and never removing it
C26_CompletedStaysCompleted ==
  (gr.pc = "done" /\ gr.jobId \in gr.reported) =>
     (gr.resp.success /\ gr.resp.data.status = "completed")

\* C27: the steps of a startEvaluation call are ordered: the config document
\* is completely written before the metadata document is begun, and both are
\* completely written before the engine is invoked; so whenever the engine has
\* been invoked for a job id, or a Result document for it exists, its config
\* and metadata documents exist, completely written
C27_StepsOrdered ==
  \A j \in JobIds :
    /\ jobs[j].file # "absent" => configs[j] = "full"
    /\ (j \in invoked \/ results[j].file # "absent") =>
         (configs[j] = "full" /\ jobs[j].file = "full")

\* the engine was invoked for a job and has written its Result, while the
\* next startEvaluation call is in the middle of writing its metadata
C27_Witness ==
  /\ \E j \in invoked : results[j].file = "full"
  /\ se.pc = "wrJob" /\ jobs[se.jobId].file = "partial"

\* C28: when startEvaluation returns a failure outcome the store is as it
\* was before the call: no config document and no metadata document remain
\* for the job id the call had drawn
C28_FailureLeavesNoDocuments ==
  (se.pc = "done" /\ ~se.resp.success) =>
     (configs[se.jobId] = "absent" /\ jobs[se.jobId].file = "absent")

\* what getJobResults returns for the id at position i of the comparison
\* request when it runs against the store as it is
GetJobResultsAt(i) ==
  LET resp == ResolveJob(StoredJob(i), StoredResult(i))
  IN IF NeedsStatus(StoredJob(i), StoredResult(i))
     THEN [resp EXCEPT !.data.status = getJobStatus(results[cj.job_ids[i]])]
     ELSE resp

\* C29: the two job loaders agree on every store state and job id: the
\* comparison's loader yields a job exactly when getJobResults succeeds, and
\* then both yield the same status and the same Result
C29_LoadersAgree ==
  CjSettled =>
    \A i \in DOMAIN cj.job_ids :
      /\ Loads(cj.jobData[i], cj.resultsData[i]) <=> GetJobResultsAt(i).success
      /\ Loads(cj.jobData[i], cj.resultsData[i]) =>
           LET job == loadJobWithResults(cj.jobData[i], cj.resultsData[i])
           IN /\ job.status = GetJobResultsAt(i).data.status
              /\ job.results = GetJobResultsAt(i).data.results

\* the events that end a waitForCompletion call
TerminalEvents == {"jobCompleted", "jobFailed", "jobCancelled", "jobTimeout"}

\* C30: a waitForCompletion call emits at most one of jobCompleted, jobFailed,
\* jobCancelled and jobTimeout, and nothing after it; the terminal event of a
\* poll comes right after that poll's jobProgress; and the call resolves with
\* a job if and only if it emitted jobCompleted
C30_EventOrder ==
  LET ev == wc.events
      terminal == {i \in DOMAIN ev : ev[i] \in TerminalEvents}
  IN /\ Cardinality(terminal) <= 1
     /\ \A i \in terminal :
          /\ i = Len(ev)
          /\ ev[i] # "jobTimeout" => (i > 1 /\ ev[i - 1] = "jobProgress")
     /\ wc.pc = "ended" =>
          (wc.outcome = "resolved" <=> "jobCompleted" \in Range(ev))
     /\ terminal # {} => wc.pc = "ended"

\* a call has resolved with the job after more than one poll
C30_Witness ==
  /\ wc.pc = "ended" /\ wc.outcome = "resolved" /\ wc.polls >= 2
  /\ wc.events[Len(wc.events)] = "jobCompleted"

====
